---- MODULE Spec2Model ----
(***************************************************************************)
(* NASA-LSP: the rule engine of src/nasa_lsp/analyzer.py (analyze and the  *)
(* NasaVisitor tree walker) as a state machine.                            *)
(*                                                                         *)
(* A source text is a sequence of one-character strings.  The parser       *)
(* (Python's ast.parse) is an external collaborator: an input pairs a text *)
(* with what the parser returns for it, either "SyntaxError" or a tree     *)
(* whose nodes carry the parser's line/column metadata.  Trees are built   *)
(* from small program terms by Unparse, which lays the program out as text *)
(* and records every node's span in that text.                             *)
(*                                                                         *)
(* A tree is a sequence of node records; a node is named by its index and  *)
(* node 1 is the root.  The recursion visit -> visit_X -> generic_visit -> *)
(* visit is modelled by a stack of pending visits, each with the depth of  *)
(* the Python call stack at which the visit is entered.                    *)
(***************************************************************************)
EXTENDS Integers, Sequences, FiniteSets, Bags, TLC

VARIABLES
    text,         \* the argument of analyze: the source text, a sequence of characters
    parsed,       \* what ast.parse returns for text: "SyntaxError" or a tree
    pc,           \* where analyze is: "start", "parsed", "visit", "done", "raised"
    lines,        \* NasaVisitor.lines
    diagnostics,  \* NasaVisitor.diagnostics, the diagnostic sink
    work,         \* pending visit calls, innermost first: <<[node, depth], ...>>
    result,       \* the value analyze returned (when pc = "done")
    exc,          \* the exception analyze raised (when pc = "raised")
    other,        \* a second analyze call, suspended: its own text, ..., exc
    cli,          \* the lint command of src/nasa_lsp/cli.py that calls analyze
    unit          \* a direct call of a method of the visitor, as the unit tests make it

vars == <<text, parsed, pc, lines, diagnostics, work, result, exc, other, cli, unit>>

(***************************************************************************)
(* Bounds of the input space.                                              *)
(***************************************************************************)
\* most spaces between a keyword and what follows it on a def line
MaxPad == 2
\* most statements in a generated function body
MaxBody == 2

(***************************************************************************)
(* Sequence helpers.                                                       *)
(***************************************************************************)
Elems(s) == {s[i] : i \in DOMAIN s}

RECURSIVE Concat(_)
Concat(ss) == IF ss = <<>> THEN <<>> ELSE Head(ss) \o Concat(Tail(ss))

Repeat(c, n) == [i \in 1..n |-> c]

(***************************************************************************)
(* Spellings: identifiers and keywords as character sequences.             *)
(***************************************************************************)
S_eval == <<"e", "v", "a", "l">>
S_exec == <<"e", "x", "e", "c">>
S_compile == <<"c", "o", "m", "p", "i", "l", "e">>
S_globals == <<"g", "l", "o", "b", "a", "l", "s">>
S_locals == <<"l", "o", "c", "a", "l", "s">>
S_import == <<"_", "_", "i", "m", "p", "o", "r", "t", "_", "_">>
S_setattr == <<"s", "e", "t", "a", "t", "t", "r">>
S_getattr == <<"g", "e", "t", "a", "t", "t", "r">>
S_evals == <<"e", "v", "a", "l", "s">>
S_f == <<"f">>
S_g == <<"g">>
S_x == <<"x">>
S_obj == <<"o", "b", "j">>
S_C == <<"C">>
S_def == <<"d", "e", "f">>
S_async == <<"a", "s", "y", "n", "c">>
S_class == <<"c", "l", "a", "s", "s">>
S_while == <<"w", "h", "i", "l", "e">>
S_for == <<"f", "o", "r">>
S_in == <<"i", "n">>
S_if == <<"i", "f">>
S_else == <<"e", "l", "s", "e">>
S_pass == <<"p", "a", "s", "s">>
S_assert == <<"a", "s", "s", "e", "r", "t">>
S_lambda == <<"l", "a", "m", "b", "d", "a">>
S_True == <<"T", "r", "u", "e">>
S_False == <<"F", "a", "l", "s", "e">>
S_1 == <<"1">>
S_quotes == <<"\"", "\"", "\"">>
SP == <<" ">>

(***************************************************************************)
(* Tree nodes, as the parser collaborator delivers them.                   *)
(*   kind      the node class (ast.Call, ast.While, ...)                    *)
(*   name      FunctionDef/ClassDef .name, Name .id, Attribute .attr       *)
(*   value     Constant .value as it is spelled (S_True, ...), else <<>>   *)
(*   lineno, col_offset, end_lineno, end_col_offset   the node's span      *)
(*   children  the child nodes in ast.iter_child_nodes order (_fields)     *)
(*   func      Call .func;  test  While .test;  body  a definition's .body *)
(* An absent reference is 0.  Module and arguments nodes carry no span.    *)
(***************************************************************************)
Node(kind, name, value, endcol, children, func, test, body) ==
    [kind |-> kind, name |-> name, value |-> value,
     lineno |-> 1, col_offset |-> 0, end_lineno |-> 1, end_col_offset |-> endcol,
     children |-> children, func |-> func, test |-> test, body |-> body]

ShiftRef(r, di) == IF r = 0 THEN 0 ELSE r + di

\* The nodes ns renumbered by di and moved down dl lines and right dc columns.
ShiftNodes(ns, di, dl, dc) ==
    [i \in 1..Len(ns) |->
        [ns[i] EXCEPT
            !.lineno = @ + dl, !.end_lineno = @ + dl,
            !.col_offset = @ + dc, !.end_col_offset = @ + dc,
            !.children = [j \in 1..Len(@) |-> @[j] + di],
            !.body = [j \in 1..Len(@) |-> @[j] + di],
            !.func = ShiftRef(@, di), !.test = ShiftRef(@, di)]]

(***************************************************************************)
(* Program terms: [k, id, a, b, p, q] with a and b sequences of sub-terms. *)
(***************************************************************************)
Term(k, id, a, b, p, q) == [k |-> k, id |-> id, a |-> a, b |-> b, p |-> p, q |-> q]

TName(id) == Term("Name", id, <<>>, <<>>, 0, 0)
TConst(v) == Term("Constant", v, <<>>, <<>>, 0, 0)
TAttr(value, attr) == Term("Attribute", attr, <<value>>, <<>>, 0, 0)
TCall(func, args) == Term("Call", <<>>, <<func>>, args, 0, 0)
TSub(value, slice) == Term("Subscript", <<>>, <<value>>, <<slice>>, 0, 0)
TLambda(body) == Term("Lambda", <<>>, <<body>>, <<>>, 0, 0)
TIfExp(test, body, orelse) == Term("IfExp", <<>>, <<test, body, orelse>>, <<>>, 0, 0)
TDict(keys, values) == Term("Dict", <<>>, keys, values, 0, 0)
TExpr(e) == Term("Expr", <<>>, <<e>>, <<>>, 0, 0)
TPass == Term("Pass", <<>>, <<>>, <<>>, 0, 0)
TAssert(test) == Term("Assert", <<>>, <<test>>, <<>>, 0, 0)
\* a string literal statement that runs over n further lines
TDoc(n) == Term("Doc", <<>>, <<>>, <<>>, n, 0)
\* a lambda expression statement whose body is a string literal over n further lines
TLambdaDoc(n) == Term("LambdaDoc", <<>>, <<>>, <<>>, n, 0)
TWhile(test, body) == Term("While", <<>>, <<test>>, body, 0, 0)
TIf(test, body) == Term("If", <<>>, <<test>>, body, 0, 0)
TFor(target, iter, body) == Term("For", <<>>, <<target, iter>>, body, 0, 0)
\* def name(): with pad spaces after "def"; decos are decorator expressions
TDef(name, body, decos, pad) == Term("FunctionDef", name, decos, body, pad, 0)
\* async def name(): with apad spaces between "async" and "def"
TAsyncDef(name, body, decos, pad, apad) == Term("AsyncFunctionDef", name, decos, body, pad, apad)
TClass(name, body) == Term("ClassDef", name, <<>>, body, 0, 0)
TModule(body) == Term("Module", <<>>, <<>>, body, 0, 0)

(***************************************************************************)
(* Unparse: a term laid out as source text, with the tree the parser       *)
(* returns for that text.  Asm concatenates pieces of one line, moving the *)
(* nodes of each piece to the column where the piece starts.               *)
(***************************************************************************)
Lit(s) == [s |-> s, ns |-> <<>>]

RECURSIVE AsmAcc(_, _)
AsmAcc(parts, acc) ==
    IF parts = <<>> THEN acc
    ELSE LET p == Head(parts)
             di == 1 + Len(acc.ns)
         IN AsmAcc(Tail(parts),
                   [s |-> acc.s \o p.s,
                    ns |-> acc.ns \o ShiftNodes(p.ns, di, 0, Len(acc.s)),
                    roots |-> IF p.ns = <<>> THEN acc.roots ELSE Append(acc.roots, di + 1)])

Asm(parts) == AsmAcc(parts, [s |-> <<>>, ns |-> <<>>, roots |-> <<>>])

\* the ast.arguments node of a definition or lambda without parameters
ArgumentsPart == [s |-> <<>>, ns |-> <<Node("arguments", <<>>, <<>>, 0, <<>>, 0, 0, <<>>)>>]

RECURSIVE E(_)
CommaSep(ts) ==
    Concat([i \in 1..Len(ts) |-> IF i = 1 THEN <<E(ts[i])>> ELSE <<Lit(<<",", " ">>), E(ts[i])>>])

DictItems(ks, vs) ==
    Concat([i \in 1..Len(ks) |->
        (IF i = 1 THEN <<>> ELSE <<Lit(<<",", " ">>)>>) \o <<E(ks[i]), Lit(<<":", " ">>), E(vs[i])>>])

E(t) ==
    CASE t.k = "Name" ->
            [s |-> t.id, ns |-> <<Node("Name", t.id, <<>>, Len(t.id), <<>>, 0, 0, <<>>)>>]
      [] t.k = "Constant" ->
            [s |-> t.id, ns |-> <<Node("Constant", <<>>, t.id, Len(t.id), <<>>, 0, 0, <<>>)>>]
      [] t.k = "Attribute" ->
            LET r == Asm(<<E(t.a[1]), Lit(<<".">>), Lit(t.id)>>)
            IN [s |-> r.s,
                ns |-> <<Node("Attribute", t.id, <<>>, Len(r.s), r.roots, 0, 0, <<>>)>> \o r.ns]
      [] t.k = "Call" ->
            LET f == t.a[1]
                fparts == IF f.k \in {"Lambda", "IfExp"}
                          THEN <<Lit(<<"(">>), E(f), Lit(<<")">>)>>
                          ELSE <<E(f)>>
                r == Asm(fparts \o <<Lit(<<"(">>)>> \o CommaSep(t.b) \o <<Lit(<<")">>)>>)
            IN [s |-> r.s,
                ns |-> <<Node("Call", <<>>, <<>>, Len(r.s), r.roots, r.roots[1], 0, <<>>)>> \o r.ns]
      [] t.k = "Subscript" ->
            LET r == Asm(<<E(t.a[1]), Lit(<<"[">>), E(t.b[1]), Lit(<<"]">>)>>)
            IN [s |-> r.s,
                ns |-> <<Node("Subscript", <<>>, <<>>, Len(r.s), r.roots, 0, 0, <<>>)>> \o r.ns]
      [] t.k = "Lambda" ->
            LET r == Asm(<<Lit(S_lambda), ArgumentsPart, Lit(<<":", " ">>), E(t.a[1])>>)
            IN [s |-> r.s,
                ns |-> <<Node("Lambda", <<>>, <<>>, Len(r.s), r.roots, 0, 0, <<>>)>> \o r.ns]
      [] t.k = "IfExp" ->
            LET r == Asm(<<E(t.a[2]), Lit(SP \o S_if \o SP), E(t.a[1]),
                           Lit(SP \o S_else \o SP), E(t.a[3])>>)
            IN [s |-> r.s,
                ns |-> <<Node("IfExp", <<>>, <<>>, Len(r.s),
                              <<r.roots[2], r.roots[1], r.roots[3]>>, 0, 0, <<>>)>> \o r.ns]
      [] t.k = "Dict" ->
            LET r == Asm(<<Lit(<<"{">>)>> \o DictItems(t.a, t.b) \o <<Lit(<<"}">>)>>)
                n == Len(t.a)
            IN [s |-> r.s,
                ns |-> <<Node("Dict", <<>>, <<>>, Len(r.s),
                              [i \in 1..(2 * n) |-> IF i <= n THEN r.roots[2 * i - 1]
                                                     ELSE r.roots[2 * (i - n)]],
                              0, 0, <<>>)>> \o r.ns]

(***************************************************************************)
(* Statements.  St(t, ind) is [lines, ns]: the statement's text lines at   *)
(* indentation ind and its nodes, root first, with line numbers counted    *)
(* from the statement's first line.  A definition's lineno is the line of  *)
(* its def keyword, after its decorators; a compound statement ends where  *)
(* its last body statement ends.                                           *)
(***************************************************************************)
Indent(ind) == Lit(Repeat(" ", ind))

\* the header pieces of a statement, after the indentation
RECURSIVE St(_, _)
Header(t) ==
    CASE t.k = "Expr" -> <<E(t.a[1])>>
      [] t.k = "Pass" -> <<Lit(S_pass)>>
      [] t.k = "Assert" -> <<Lit(S_assert \o SP), E(t.a[1])>>
      [] t.k = "While" -> <<Lit(S_while \o SP), E(t.a[1]), Lit(<<":">>)>>
      [] t.k = "If" -> <<Lit(S_if \o SP), E(t.a[1]), Lit(<<":">>)>>
      [] t.k = "For" -> <<Lit(S_for \o SP), E(t.a[1]), Lit(SP \o S_in \o SP), E(t.a[2]), Lit(<<":">>)>>
      [] t.k = "ClassDef" -> <<Lit(S_class \o SP \o t.id \o <<":">>)>>
      [] t.k = "FunctionDef" ->
            <<Lit(S_def \o Repeat(" ", t.p) \o t.id \o <<"(">>), ArgumentsPart, Lit(<<")", ":">>)>>
      [] t.k = "AsyncFunctionDef" ->
            <<Lit(S_async \o Repeat(" ", t.q) \o S_def \o Repeat(" ", t.p) \o t.id \o <<"(">>),
              ArgumentsPart, Lit(<<")", ":">>)>>

\* the block acc with statement r below it
Below(acc, r) ==
    [lines |-> acc.lines \o r.lines,
     ns |-> acc.ns \o ShiftNodes(r.ns, Len(acc.ns), Len(acc.lines), 0),
     roots |-> Append(acc.roots, Len(acc.ns) + 1)]

\* a sequence of statements, one below the other: [lines, ns, roots]
RECURSIVE BlockAcc(_, _, _)
BlockAcc(ts, ind, acc) ==
    IF ts = <<>> THEN acc
    ELSE BlockAcc(Tail(ts), ind, Below(acc, St(Head(ts), ind)))

Block(ts, ind) == BlockAcc(ts, ind, [lines |-> <<>>, ns |-> <<>>, roots |-> <<>>])

\* the decorator lines of a definition: "@" expression, one per line
RECURSIVE DecoratorsAcc(_, _, _)
DecoratorsAcc(ds, ind, acc) ==
    IF ds = <<>> THEN acc
    ELSE DecoratorsAcc(Tail(ds), ind,
            [lines |-> Append(acc.lines, Asm(<<Indent(ind), Lit(<<"@">>), E(Head(ds))>>).s),
             ns |-> acc.ns \o ShiftNodes(Asm(<<Indent(ind), Lit(<<"@">>), E(Head(ds))>>).ns,
                                         Len(acc.ns) - 1, Len(acc.lines), 0),
             roots |-> Append(acc.roots, Len(acc.ns) + 1)])

Decorators(ds, ind) == DecoratorsAcc(ds, ind, [lines |-> <<>>, ns |-> <<>>, roots |-> <<>>])

IsDef(t) == t.k \in {"FunctionDef", "AsyncFunctionDef"}

IsCompound(t) == t.k \in {"While", "If", "For", "ClassDef", "FunctionDef", "AsyncFunctionDef"}

\* a string literal statement over p further lines: """ ... """
DocStatement(p, ind) ==
    [lines |-> <<Repeat(" ", ind) \o S_quotes \o (IF p = 0 THEN S_quotes ELSE <<>>)>>
               \o [i \in 1..p |-> IF i = p THEN S_quotes ELSE <<>>],
     ns |-> <<[Node("Expr", <<>>, <<>>, IF p = 0 THEN ind + 6 ELSE 3, <<2>>, 0, 0, <<>>)
               EXCEPT !.col_offset = ind, !.end_lineno = 1 + p],
              [Node("Constant", <<>>, <<"s", "t", "r">>, IF p = 0 THEN ind + 6 ELSE 3,
                    <<>>, 0, 0, <<>>)
               EXCEPT !.col_offset = ind, !.end_lineno = 1 + p]>>]

\* lambda: """ ... """ with the literal running over p >= 1 further lines
LambdaDocStatement(p, ind) ==
    [lines |-> <<Repeat(" ", ind) \o S_lambda \o <<":", " ">> \o S_quotes>>
               \o [i \in 1..p |-> IF i = p THEN S_quotes ELSE <<>>],
     ns |-> <<[Node("Expr", <<>>, <<>>, 3, <<2>>, 0, 0, <<>>)
               EXCEPT !.col_offset = ind, !.end_lineno = 1 + p],
              [Node("Lambda", <<>>, <<>>, 3, <<3, 4>>, 0, 0, <<>>)
               EXCEPT !.col_offset = ind, !.end_lineno = 1 + p],
              Node("arguments", <<>>, <<>>, 0, <<>>, 0, 0, <<>>),
              [Node("Constant", <<>>, <<"s", "t", "r">>, 3, <<>>, 0, 0, <<>>)
               EXCEPT !.col_offset = ind + Len(S_lambda) + 2, !.end_lineno = 1 + p]>>]

\* the statement's own node: it starts at the header line (line nd + 1) and ends
\* with node `last`
StatementNode(t, ind, nd, last, hroots, broots, droots) ==
    [Node(t.k, IF IsDef(t) \/ t.k = "ClassDef" THEN t.id ELSE <<>>, <<>>,
          last.end_col_offset,
          hroots \o broots \o droots,
          0,
          IF t.k = "While" THEN hroots[1] ELSE 0,
          IF IsDef(t) \/ t.k = "ClassDef" THEN broots ELSE <<>>)
     EXCEPT !.lineno = nd + 1, !.col_offset = ind, !.end_lineno = last.end_lineno]

\* node numbers: 1 the statement, then the header's nodes hns, the decorators' dns,
\* the body's bns
Numbered(t, ind, nd, hend, hns, dns, bns, hroots, droots, broots) ==
    <<StatementNode(t, ind, nd,
                    IF IsCompound(t)
                    THEN bns[broots[Len(broots)] - (1 + Len(hns) + Len(dns))]
                    ELSE [end_lineno |-> nd + 1, end_col_offset |-> hend],
                    hroots, broots, droots)>>
    \o hns \o dns \o bns

\* a statement from its decorator lines decos, its header line h and its body block b
Compose(t, ind, decos, h, b) ==
    [lines |-> decos.lines \o <<h.s>> \o b.lines,
     ns |-> Numbered(t, ind, Len(decos.lines), Len(h.s),
                     ShiftNodes(h.ns, 0, Len(decos.lines), 0),
                     ShiftNodes(decos.ns, 1 + Len(h.ns), 0, 0),
                     ShiftNodes(b.ns, 1 + Len(h.ns) + Len(decos.ns), Len(decos.lines) + 1, 0),
                     h.roots,
                     [i \in 1..Len(decos.roots) |-> decos.roots[i] + 1 + Len(h.ns)],
                     [i \in 1..Len(b.roots) |-> b.roots[i] + 1 + Len(h.ns) + Len(decos.ns)])]

St(t, ind) ==
    IF t.k = "Doc" THEN DocStatement(t.p, ind)
    ELSE IF t.k = "LambdaDoc" THEN LambdaDocStatement(t.p, ind)
    ELSE Compose(t, ind,
                 Decorators(IF IsDef(t) THEN t.a ELSE <<>>, ind),
                 Asm(<<Indent(ind)>> \o Header(t)),
                 Block(IF IsCompound(t) THEN t.b ELSE <<>>, ind + 4))

\* lines joined by "\n", as the text handed to analyze
JoinLines(ls) ==
    Concat([i \in 1..Len(ls) |-> IF i = 1 THEN ls[i] ELSE <<"\n">> \o ls[i]])

\* An input: the text of module term m, and the tree ast.parse returns for it.
ModuleOf(b) ==
    [text |-> JoinLines(b.lines),
     parsed |-> <<[Node("Module", <<>>, <<>>, 0, [i \in 1..Len(b.roots) |-> b.roots[i] + 1],
                        0, 0, <<>>)
                   EXCEPT !.lineno = 0, !.end_lineno = 0]>>
                \o ShiftNodes(b.ns, 1, 0, 0)]

Unparse(m) == ModuleOf(Block(m.b, 0))

(***************************************************************************)
(* The analyzer: src/nasa_lsp/analyzer.py.                                 *)
(***************************************************************************)
\* the interpreter's limit on the depth of the call stack (sys.getrecursionlimit())
RecursionLimit == 1000

\* the threshold of the function-length rule
MaxFunctionSpan == 60

\* the least number of asserts a function needs
MinAsserts == 2

\* str.splitlines: the characters at which a line ends
LineBreaks == {"\n", "\r", "\f"}

\* str.isspace, for one character
isspace(c) == c \in {" ", "\t", "\n", "\r", "\f"}

\* the pieces of t between the breaks in seps; "\r\n" is one break and a text that
\* ends with a break has no empty last piece
SplitAt(t, seps) ==
    LET n == Len(t)
        ends == {i \in 1..n : t[i] \in seps /\ ~(t[i] = "\r" /\ i < n /\ t[i + 1] = "\n")}
        starts == IF n = 0 THEN {} ELSE {1} \cup {i + 1 : i \in {e \in ends : e < n}}
        startOf(k) == CHOOSE b \in starts : Cardinality({c \in starts : c < b}) = k - 1
        stop(b) == LET br == {i \in b..n : t[i] \in seps}
                   IN IF br = {} THEN n ELSE (CHOOSE i \in br : \A j \in br : i <= j) - 1
    IN [k \in 1..Cardinality(starts) |-> SubSeq(t, startOf(k), stop(startOf(k)))]

\* str.splitlines(): the lines of t without their line breaks
splitlines(t) == SplitAt(t, LineBreaks)

\* str.find(sub, start): the lowest zero-based index >= start where sub occurs, or -1
find(s, sub, start) ==
    LET hits == {i \in start..(Len(s) - Len(sub)) : \A j \in 1..Len(sub) : s[i + j] = sub[j]}
    IN IF hits = {} THEN -1 ELSE CHOOSE i \in hits : \A j \in hits : i <= j

\* str(n) for a natural number: its decimal digits
Digits == <<"0", "1", "2", "3", "4", "5", "6", "7", "8", "9">>

RECURSIVE str(_)
str(n) == IF n < 10 THEN <<Digits[n + 1]>> ELSE str(n \div 10) \o <<Digits[(n % 10) + 1]>>

Position(line, character) == [line |-> line, character |-> character]

Diagnostic(range, message, code) == [range |-> range, message |-> message, code |-> code]

\* the asserts of _pos: "assert lineno" fails for 0 only, "assert col >= 0"
pos_asserts(lineno, col) == lineno # 0 /\ col >= 0

\* NasaVisitor._pos
pos(lineno, col) == Position(lineno - 1, col)

\* the asserts _range_for_node runs into, through _pos
range_for_node_asserts(node) ==
    /\ pos_asserts(node.lineno, node.col_offset)
    /\ pos_asserts(node.end_lineno, node.end_col_offset)

\* _range_for_node with the two ends exchanged
range_for_node_reversed(node) ==
    [start |-> pos(node.end_lineno, node.end_col_offset),
     end |-> pos(node.lineno, node.col_offset)]

\* NasaVisitor._range_for_node
range_for_node(node) ==
    [start |-> pos(node.lineno, node.col_offset),
     end |-> pos(node.end_lineno, node.end_col_offset)]

def_kw(node) == IF node.kind = "AsyncFunctionDef" THEN S_async \o SP \o S_def ELSE S_def

\* the index the while loop of _range_for_func_name stops at
RECURSIVE skip_space(_, _)
skip_space(line_text, name_start) ==
    IF name_start < Len(line_text) /\ isspace(line_text[name_start + 1])
    THEN skip_space(line_text, name_start + 1)
    ELSE name_start

\* the asserts _range_for_func_name runs into
range_for_func_name_asserts(node, ls) ==
    IF ~(0 <= node.lineno - 1 /\ node.lineno - 1 < Len(ls))
    THEN range_for_node_asserts(node)
    ELSE pos_asserts(node.lineno, node.col_offset)

\* _range_for_func_name falling back to the start of the line
range_for_func_name_line_start(node, ls) ==
    LET lineno == node.lineno
        col == node.col_offset
    IN IF ~(0 <= lineno - 1 /\ lineno - 1 < Len(ls))
       THEN [start |-> pos(lineno, 0), end |-> pos(lineno, Len(node.name))]
       ELSE LET line_text == ls[lineno]
                idx == find(line_text, def_kw(node), col)
            IN IF idx = -1
               THEN [start |-> pos(lineno, 0), end |-> pos(lineno, Len(node.name))]
               ELSE LET name_start == skip_space(line_text, idx + Len(def_kw(node)))
                    IN [start |-> pos(lineno, name_start),
                        end |-> pos(lineno, name_start + Len(node.name))]

\* NasaVisitor._range_for_func_name
range_for_func_name(node, ls) ==
    LET lineno == node.lineno
        col == node.col_offset
    IN IF ~(0 <= lineno - 1 /\ lineno - 1 < Len(ls))
       THEN range_for_node(node)
       ELSE LET line_text == ls[lineno]
                idx == find(line_text, def_kw(node), col)
            IN IF idx = -1
               THEN [start |-> pos(lineno, col), end |-> pos(lineno, col + Len(node.name))]
               ELSE LET name_start == skip_space(line_text, idx + Len(def_kw(node)))
                    IN [start |-> pos(lineno, name_start),
                        end |-> pos(lineno, name_start + Len(node.name))]

\* the forbidden set with one name left out
forbidden_without_getattr ==
    {S_eval, S_exec, S_compile, S_globals, S_locals, S_import, S_setattr}

\* the forbidden set of visit_Call
forbidden ==
    {S_eval, S_exec, S_compile, S_globals, S_locals, S_import, S_setattr, S_getattr}

\* what a visitor method did: the diagnostics it appended, or an assertion that failed
Appended(ds) == [raised |-> FALSE, diags |-> ds]
AssertionFailed == [raised |-> TRUE, diags |-> <<>>]

\* the name visit_Call resolves for a call (<<>> for None), from node.func
call_name(tree, node) ==
    LET f == tree[node.func]
    IN IF f.kind \in {"Name", "Attribute"} THEN f.name ELSE <<>>

\* visit_Call reporting the whole call, arguments included, instead of its target
visit_Call_whole_call(tree, node) ==
    LET name == IF tree[node.func].kind \in {"Name", "Attribute"}
                THEN tree[node.func].name ELSE <<>>
    IN IF name # <<>> /\ name \in {S_eval, S_exec, S_compile, S_globals, S_locals,
                                   S_import, S_setattr, S_getattr}
       THEN Appended(<<Diagnostic(range_for_node(node),
                                  <<"Call to forbidden API '", name,
                                    "' (NASA01: restricted subset)">>,
                                  "NASA01-A")>>)
       ELSE Appended(<<>>)

\* visit_Call with the message text without its rule tag
visit_Call_untagged_message(tree, node) ==
    LET name == IF tree[node.func].kind \in {"Name", "Attribute"}
                THEN tree[node.func].name ELSE <<>>
    IN IF name # <<>> /\ name \in {S_eval, S_exec, S_compile, S_globals, S_locals,
                                   S_import, S_setattr, S_getattr}
       THEN Appended(<<Diagnostic(range_for_node(tree[node.func]),
                                  <<"Call to forbidden API '", name, "' (restricted subset)">>,
                                  "NASA01-A")>>)
       ELSE Appended(<<>>)

\* NasaVisitor.visit_Call, up to its generic_visit
visit_Call(tree, node) ==
    LET name == call_name(tree, node)
        target_node == tree[node.func]
    IN IF name # <<>> /\ name \in forbidden
       THEN IF range_for_node_asserts(target_node)
            THEN Appended(<<Diagnostic(range_for_node(target_node),
                                       <<"Call to forbidden API '", name,
                                         "' (NASA01: restricted subset)">>,
                                       "NASA01-A")>>)
            ELSE AssertionFailed
       ELSE Appended(<<>>)

\* visit_While reporting every loop whose test is a constant, whatever its value
visit_While_any_constant(tree, node) ==
    IF tree[node.test].kind = "Constant"
    THEN Appended(<<Diagnostic(range_for_node(node),
                               <<"Unbounded loop 'while True' (NASA02: loops must be bounded)">>,
                               "NASA02")>>)
    ELSE Appended(<<>>)

\* NasaVisitor.visit_While, up to its generic_visit
visit_While(tree, node) ==
    IF tree[node.test].kind = "Constant" /\ tree[node.test].value = S_True
    THEN IF range_for_node_asserts(node)
         THEN Appended(<<Diagnostic(range_for_node(node),
                                    <<"Unbounded loop 'while True' (NASA02: loops must be bounded)">>,
                                    "NASA02")>>)
         ELSE AssertionFailed
    ELSE Appended(<<>>)

\* ast.walk(node): the node and all its descendants
RECURSIVE walk(_, _)
walk(tree, i) == {i} \cup UNION {walk(tree, c) : c \in Elems(tree[i].children)}

DefinitionKinds == {"FunctionDef", "AsyncFunctionDef", "ClassDef"}

\* the statements of node.body that the loops of _check_function do not skip
scanned_body(tree, node) == {s \in Elems(node.body) : tree[s].kind \notin DefinitionKinds}

\* the nodes the loops of _check_function look at
scanned_nodes(tree, node) == UNION {walk(tree, s) : s \in scanned_body(tree, node)}

\* calls_self of _check_function
calls_self(tree, node) ==
    \E w \in scanned_nodes(tree, node) :
        /\ tree[w].kind = "Call"
        /\ tree[tree[w].func].kind = "Name"
        /\ tree[tree[w].func].name = node.name

\* assert_count of _check_function
assert_count(tree, node) ==
    Cardinality({w \in scanned_nodes(tree, node) : tree[w].kind = "Assert"})

\* the length rule firing only above the limit, not at it
too_long_above_limit(node) == node.end_lineno - node.lineno > MaxFunctionSpan

\* whether the length rule of _check_function fires
too_long(node) == node.end_lineno - node.lineno >= MaxFunctionSpan

\* whether the assertion rule of _check_function fires
too_few_asserts(tree, node) == assert_count(tree, node) < MinAsserts

\* _check_function with the length rule ahead of the recursion rule
check_function_length_first(tree, node, ls) ==
    LET r == range_for_func_name(node, ls)
        b == IF calls_self(tree, node)
             THEN <<Diagnostic(r, <<"Recursive call to '", node.name, "' (NASA01: no recursion)">>,
                               "NASA01-B")>>
             ELSE <<>>
        l == IF too_long(node)
             THEN <<Diagnostic(r, <<"Function '", node.name,
                                    "' longer than 60 lines (NASA04: No function longer than 60 lines)">>,
                               "NASA04")>>
             ELSE <<>>
        a == IF too_few_asserts(tree, node)
             THEN <<Diagnostic(r, <<"Function '", node.name, "' has only ",
                                    str(assert_count(tree, node)),
                                    " assert(s); expected at least 2 asserts (NASA05: use assertions to detect impossible conditions)">>,
                               "NASA05")>>
             ELSE <<>>
    IN Appended(l \o b \o a)

\* NasaVisitor._check_function
check_function(tree, node, ls) ==
    LET func_name == node.name
        func_name_range == range_for_func_name(node, ls)
        b == IF calls_self(tree, node)
             THEN <<Diagnostic(func_name_range,
                               <<"Recursive call to '", func_name, "' (NASA01: no recursion)">>,
                               "NASA01-B")>>
             ELSE <<>>
        l == IF too_long(node)
             THEN <<Diagnostic(func_name_range,
                               <<"Function '", func_name,
                                 "' longer than 60 lines (NASA04: No function longer than 60 lines)">>,
                               "NASA04")>>
             ELSE <<>>
        a == IF too_few_asserts(tree, node)
             THEN <<Diagnostic(func_name_range,
                               <<"Function '", func_name, "' has only ",
                                 str(assert_count(tree, node)),
                                 " assert(s); expected at least 2 asserts (NASA05: use assertions to detect impossible conditions)">>,
                               "NASA05")>>
             ELSE <<>>
    IN IF func_name = <<>> \/ ~range_for_func_name_asserts(node, ls)
       THEN AssertionFailed
       ELSE Appended(b \o l \o a)

(***************************************************************************)
(* The walker.  ast.NodeVisitor.visit(node) calls visit_<kind> when the    *)
(* visitor defines it and generic_visit otherwise; every visit_<kind> of   *)
(* NasaVisitor ends with generic_visit(node), which calls visit on every   *)
(* child in ast.iter_fields order.  A pending visit is [node, depth]:      *)
(* depth is the depth of the Python call stack in the frame of that visit  *)
(* call, counted from analyze's own frame as 1.  The frames of analyze's   *)
(* caller and of the helpers a visit calls (ast.iter_fields) are not       *)
(* counted: the interpreter raises RecursionError no later than here.      *)
(***************************************************************************)
\* the frames a visit of this kind of node puts below its children's visits:
\* visit and generic_visit, and visit_<kind> between them where it exists
Frames(kind) ==
    IF kind \in {"Call", "While", "FunctionDef", "AsyncFunctionDef"} THEN 3 ELSE 2

\* generic_visit: the visits of the children, in order, ahead of what was pending
generic_visit(node, depth, rest) ==
    [j \in 1..Len(node.children) |->
        [node |-> node.children[j], depth |-> depth + Frames(node.kind)]] \o rest

TypeOK ==
    /\ pc \in {"none", "start", "parsed", "visit", "done", "raised"}
    /\ exc \in {"", "AssertionError", "RecursionError"}
    /\ parsed.ok \in BOOLEAN

\* analyze without its except clause: the SyntaxError leaves analyze
AnalyzeParse_uncaught ==
    /\ pc = "start"
    /\ IF text = <<>>
       THEN pc' = "raised" /\ exc' = "AssertionError" /\ result' = result
       ELSE IF ~parsed.ok
            THEN pc' = "raised" /\ exc' = "SyntaxError" /\ result' = result
            ELSE pc' = "parsed" /\ result' = result /\ exc' = exc
    /\ UNCHANGED <<text, parsed, lines, diagnostics, work, other, cli, unit>>

\* analyze, lines 164-168: assert text, then ast.parse
AnalyzeParse ==
    /\ pc = "start"
    /\ IF text = <<>>
       THEN pc' = "raised" /\ exc' = "AssertionError" /\ result' = result
       ELSE IF ~parsed.ok
            THEN pc' = "done" /\ result' = <<>> /\ exc' = exc
            ELSE pc' = "parsed" /\ result' = result /\ exc' = exc
    /\ UNCHANGED <<text, parsed, lines, diagnostics, work, other, cli, unit>>

\* analyze, lines 169-170: NasaVisitor(text), and the call visitor.visit(tree)
VisitorInit ==
    /\ pc = "parsed"
    /\ lines' = splitlines(text)
    /\ diagnostics' = <<>>
    /\ work' = <<[node |-> 1, depth |-> 2]>>
    /\ pc' = "visit"
    /\ UNCHANGED <<text, parsed, result, exc, other, cli, unit>>

Top == parsed.tree[work[1].node]

Fits == work[1].depth + Frames(Top.kind) <= RecursionLimit

\* a walker whose sink takes new diagnostics at its front
Visit_prepends(kinds, did) ==
    /\ pc = "visit"
    /\ work # <<>>
    /\ Top.kind \in kinds
    /\ Fits
    /\ IF did.raised
       THEN /\ pc' = "raised"
            /\ exc' = "AssertionError"
            /\ UNCHANGED <<diagnostics, work>>
       ELSE /\ diagnostics' = did.diags \o diagnostics
            /\ work' = generic_visit(Top, work[1].depth, Tail(work))
            /\ UNCHANGED <<pc, exc>>
    /\ UNCHANGED <<text, parsed, lines, result, other, cli, unit>>

\* a walker that does not go below a node it has reported
Visit_stops_at_finding(kinds, did) ==
    /\ pc = "visit"
    /\ work # <<>>
    /\ Top.kind \in kinds
    /\ Fits
    /\ IF did.raised
       THEN /\ pc' = "raised"
            /\ exc' = "AssertionError"
            /\ UNCHANGED <<diagnostics, work>>
       ELSE /\ diagnostics' = diagnostics \o did.diags
            /\ work' = IF did.diags # <<>>
                       THEN Tail(work)
                       ELSE generic_visit(Top, work[1].depth, Tail(work))
            /\ UNCHANGED <<pc, exc>>
    /\ UNCHANGED <<text, parsed, lines, result, other, cli, unit>>

\* one visit(node) call for a node of the given kinds, whose visit_<kind> did `did`
Visit(kinds, did) ==
    /\ pc = "visit"
    /\ work # <<>>
    /\ Top.kind \in kinds
    /\ Fits
    /\ IF did.raised
       THEN /\ pc' = "raised"
            /\ exc' = "AssertionError"
            /\ UNCHANGED <<diagnostics, work>>
       ELSE /\ diagnostics' = diagnostics \o did.diags
            /\ work' = generic_visit(Top, work[1].depth, Tail(work))
            /\ UNCHANGED <<pc, exc>>
    /\ UNCHANGED <<text, parsed, lines, result, other, cli, unit>>

VisitCall == Visit({"Call"}, visit_Call(parsed.tree, Top))

VisitWhile == Visit({"While"}, visit_While(parsed.tree, Top))

\* a walker that has the function checks run on lambda expressions as well
VisitFunctionDef_or_Lambda ==
    Visit({"FunctionDef", "Lambda"},
          check_function(parsed.tree, [Top EXCEPT !.name = S_lambda], lines))

VisitFunctionDef == Visit({"FunctionDef"}, check_function(parsed.tree, Top, lines))

VisitAsyncFunctionDef == Visit({"AsyncFunctionDef"}, check_function(parsed.tree, Top, lines))

NodeKinds ==
    {"Module", "FunctionDef", "AsyncFunctionDef", "ClassDef", "Call", "Name", "Attribute",
     "Constant", "Subscript", "Lambda", "IfExp", "Dict", "Expr", "Pass", "Assert", "While",
     "If", "For", "arguments"}

\* a node kind NasaVisitor has no method for
GenericVisit ==
    Visit(NodeKinds \ {"Call", "While", "FunctionDef", "AsyncFunctionDef"}, Appended(<<>>))

\* the call stack is full: the interpreter raises RecursionError, which nothing catches
RaiseRecursionError ==
    /\ pc = "visit"
    /\ work # <<>>
    /\ ~Fits
    /\ pc' = "raised"
    /\ exc' = "RecursionError"
    /\ UNCHANGED <<text, parsed, lines, diagnostics, work, result, other, cli, unit>>

\* analyze, line 171: return visitor.diagnostics
AnalyzeReturn ==
    /\ pc = "visit"
    /\ work = <<>>
    /\ result' = diagnostics
    /\ pc' = "done"
    /\ UNCHANGED <<text, parsed, lines, diagnostics, work, exc, other, cli, unit>>

Next ==
    \/ AnalyzeParse
    \/ VisitorInit
    \/ VisitCall
    \/ VisitWhile
    \/ VisitFunctionDef
    \/ VisitAsyncFunctionDef
    \/ GenericVisit
    \/ RaiseRecursionError
    \/ AnalyzeReturn

(***************************************************************************)
(* Inputs.                                                                 *)
(***************************************************************************)
Input(t, ok, tree) == [text |-> t, parsed |-> [ok |-> ok, tree |-> tree]]

\* the input of a module term
Program(m) == Input(Unparse(m).text, TRUE, Unparse(m).parsed)

EmptyModule == <<[Node("Module", <<>>, <<>>, 0, <<>>, 0, 0, <<>>) EXCEPT !.lineno = 0, !.end_lineno = 0]>>

\* "" and "   \n\n  \t  ": both parse, to a module without statements
EmptyText == Input(<<>>, TRUE, EmptyModule)
WhitespaceText ==
    Input(<<" ", " ", " ", "\n", "\n", " ", " ", "\t", " ", " ">>, TRUE, EmptyModule)
NewlineText == Input(<<"\n">>, TRUE, EmptyModule)

\* texts ast.parse raises SyntaxError for: "def broken(", "eval(x", "while True", and
\* "def f():\npass" (IndentationError, a SyntaxError)
SyntaxErrorTexts ==
    {Input(S_def \o SP \o <<"b", "r", "o", "k", "e", "n", "(">>, FALSE, <<>>),
     Input(S_eval \o <<"(", "x">>, FALSE, <<>>),
     Input(S_while \o SP \o S_True, FALSE, <<>>),
     Input(S_def \o SP \o S_f \o <<"(", ")", ":", "\n">> \o S_pass, FALSE, <<>>)}

\* x.a.a. ... .a with n attribute accesses: a tree n + 3 nodes deep
AttributeChain(n) ==
    Input([i \in 1..(1 + 2 * n) |-> IF i = 1 THEN "x" ELSE IF i % 2 = 0 THEN "." ELSE "a"],
          TRUE,
          [i \in 1..(n + 3) |->
              IF i = 1 THEN [Node("Module", <<>>, <<>>, 0, <<2>>, 0, 0, <<>>)
                             EXCEPT !.lineno = 0, !.end_lineno = 0]
              ELSE IF i = 2 THEN Node("Expr", <<>>, <<>>, 1 + 2 * n, <<3>>, 0, 0, <<>>)
              ELSE IF i = n + 3 THEN Node("Name", S_x, <<>>, 1, <<>>, 0, 0, <<>>)
              ELSE Node("Attribute", <<"a">>, <<>>, 1 + 2 * (n + 3 - i), <<i + 1>>, 0, 0, <<>>)])

\* the shortest chain whose walk needs more frames than the interpreter allows
DeepChain == AttributeChain((RecursionLimit - 6) \div 2)

\* the input inp below a line that holds a form feed only (a page break): the parser
\* counts one line more, the tree is the same one line further down
PageBreak(inp) ==
    Input(<<"\f", "\n">> \o inp.text, TRUE,
          [i \in DOMAIN inp.parsed.tree |->
              IF i = 1 THEN inp.parsed.tree[1]
              ELSE ShiftNodes(inp.parsed.tree, 0, 1, 0)[i]])

CornerInputs == {EmptyText, WhitespaceText, NewlineText, DeepChain} \cup SyntaxErrorTexts

X == TName(S_x)

\* sequences over pool of length lo..hi
SeqsOf(pool, lo, hi) == UNION {[1..n -> pool] : n \in lo..hi}

CalleeNames == forbidden \cup {S_f, S_evals}

\* call targets that resolve to a name: name, obj.name
NamedTargets == {TName(n) : n \in CalleeNames} \cup {TAttr(TName(S_obj), n) : n \in CalleeNames}

\* call targets that resolve to no name: x[1], lambda: x, eval() (the result of a call)
OtherTargets == {TSub(X, TConst(S_1)), TLambda(X), TCall(TName(S_eval), <<>>)}

\* most arguments of a generated call
MaxArgs == 1

ArgPool == {X, TCall(TName(S_exec), <<X>>), TCall(TAttr(TCall(TName(S_f), <<X>>), S_getattr), <<>>)}

Calls == {TCall(t, args) : t \in NamedTargets \cup OtherTargets, args \in SeqsOf(ArgPool, 0, MaxArgs)}

\* expressions that hold calls in places the walker reaches in its own order
CallHolders ==
    {TIfExp(TCall(TName(S_eval), <<>>), TCall(TName(S_exec), <<>>), X),
     TDict(<<TCall(TName(S_eval), <<>>), X>>, <<TCall(TName(S_exec), <<>>), TCall(TName(S_f), <<>>)>>),
     TCall(TLambda(TCall(TName(S_eval), <<X>>)), <<>>)}

Tests == {TConst(S_True), TConst(S_False), TConst(S_1), X, TCall(TName(S_eval), <<>>)}

Loops ==
    {TWhile(t, <<TPass>>) : t \in Tests}
    \cup {TWhile(t, <<TWhile(u, <<TExpr(TCall(TName(S_eval), <<>>))>>)>>) : t \in Tests, u \in Tests}
    \cup {TFor(X, TCall(TName(S_f), <<>>), <<b>>) : b \in {TPass, TWhile(TConst(S_True), <<TPass>>)}}
    \cup {TIf(TConst(S_True), <<TPass>>)}

Other(nm) == IF nm = S_f THEN S_g ELSE S_f

SelfCall(nm) == TExpr(TCall(TName(nm), <<>>))

\* statements of the body of a function named nm
BodyPool(nm) ==
    {TPass,
     TAssert(X),
     SelfCall(nm),
     TExpr(TCall(TAttr(TName(S_obj), nm), <<>>)),
     TExpr(TCall(TName(S_eval), <<TCall(TName(nm), <<>>)>>)),
     TExpr(TCall(TLambda(TCall(TName(nm), <<>>)), <<>>)),
     TWhile(TConst(S_True), <<TAssert(X)>>),
     TIf(X, <<TDef(Other(nm), <<SelfCall(nm), TAssert(X)>>, <<>>, 1)>>),
     TDef(Other(nm), <<SelfCall(nm), TAssert(X)>>, <<>>, 1),
     TClass(S_C, <<SelfCall(nm), TAssert(X)>>)}

Bodies(nm) == SeqsOf(BodyPool(nm), 1, MaxBody)

\* definitions that differ in their header: async, padding, decorators
Headers ==
    {TDef(S_f, b, d, p) :
        b \in {<<TPass>>, <<SelfCall(S_f)>>}, d \in {<<>>, <<TCall(TName(S_eval), <<X>>)>>},
        p \in 1..MaxPad}
    \cup {TAsyncDef(S_f, b, <<>>, p, q) :
        b \in {<<TPass>>, <<SelfCall(S_f)>>}, p \in 1..MaxPad, q \in 1..MaxPad}

\* definitions that differ in their length: the body's last statement ends n lines
\* below the def line
Lengths ==
    {TDef(S_f, <<TDoc(n - 1)>>, <<>>, 1) :
        n \in {1, MaxFunctionSpan - 1, MaxFunctionSpan, MaxFunctionSpan + 1}}
    \cup {TAsyncDef(S_f, <<TAssert(X), TDef(S_g, <<TDoc(n - 1)>>, <<>>, 1)>>, <<>>, 1, 1) :
        n \in {MaxFunctionSpan - 2, MaxFunctionSpan - 1, MaxFunctionSpan}}
    \cup {TDef(S_f, <<TExpr(TCall(TName(S_eval), <<TCall(TName(S_f), <<>>)>>)),
                      TWhile(TConst(S_True), <<TAssert(X)>>),
                      TDef(S_g, <<SelfCall(S_g)>>, <<>>, 1),
                      TDoc(MaxFunctionSpan)>>,
                <<TCall(TName(S_exec), <<>>)>>, 1)}

Definitions ==
    {TDef(S_f, b, <<>>, 1) : b \in Bodies(S_f)}
    \cup {TAsyncDef(S_g, b, <<>>, 1, 1) : b \in SeqsOf(BodyPool(S_g), 1, 1)}
    \cup Headers \cup Lengths

\* where a statement stands: at top level, in a class, in a function, in an if of one
Contexts(st) ==
    {TModule(<<st>>),
     TModule(<<TClass(S_C, <<st>>)>>),
     TModule(<<TDef(S_eval, <<st>>, <<>>, 1)>>),
     TModule(<<TDef(S_x, <<TIf(X, <<st>>)>>, <<>>, 1)>>)}

\* lambdas with a body of 2 lines and of more lines than a function may have
Lambdas == {TLambdaDoc(n) : n \in {1, MaxFunctionSpan}}

\* definitions and a call below a page break
PageBreaks ==
    {PageBreak(Program(TModule(<<st>>))) :
        st \in {TDef(S_f, <<TPass>>, <<>>, 1),
                TDef(S_f, <<SelfCall(S_f), TAssert(X)>>, <<>>, MaxPad),
                TAsyncDef(S_g, <<TPass>>, <<>>, 1, 1),
                TClass(S_C, <<TDef(S_f, <<TPass>>, <<>>, 1)>>),
                TExpr(TCall(TName(S_eval), <<X>>))}}

\* two functions that call each other, and one that does and also calls itself
Mutual ==
    {TModule(<<TDef(S_f, <<TExpr(TCall(TName(S_g), <<>>))>>, <<>>, 1),
               TDef(S_g, <<TExpr(TCall(TName(S_f), <<>>))>> \o more, <<>>, 1)>>) :
        more \in {<<>>, <<SelfCall(S_g)>>}}

Programs ==
    UNION {Contexts(TExpr(c)) : c \in Calls \cup CallHolders}
    \cup UNION {Contexts(l) : l \in Loops}
    \cup UNION {Contexts(d) : d \in Definitions}
    \cup UNION {Contexts(l) : l \in Lambdas}
    \cup Mutual

Inputs == {Program(m) : m \in Programs} \cup PageBreaks \cup CornerInputs

\* no second call
NoCall ==
    [text |-> <<>>, parsed |-> [ok |-> FALSE, tree |-> <<>>], pc |-> "none", lines |-> <<>>,
     diagnostics |-> <<>>, work |-> <<>>, result |-> <<>>, exc |-> ""]

\* no lint command: analyze is called on its own
NoLint ==
    [pc |-> "none", paths |-> <<>>, files |-> <<>>, done |-> 0, output |-> <<>>,
     total_errors |-> 0, exit_status |-> 0]

\* no direct call of a visitor method
NoUnit == [pc |-> "none", fn |-> "", lineno |-> 1, col |-> 0, node |-> <<>>, ret |-> <<>>]

\* analyze(inp.text) is called
Called(inp) ==
    /\ text = inp.text
    /\ parsed = inp.parsed
    /\ pc = "start"
    /\ lines = <<>>
    /\ diagnostics = <<>>
    /\ work = <<>>
    /\ result = <<>>
    /\ exc = ""

Init ==
    \E inp \in Inputs :
        /\ Called(inp)
        /\ other = NoCall
        /\ cli = NoLint
        /\ unit = NoUnit

Spec == Init /\ [][Next]_vars

\* the walker is scheduled until analyze returns or raises
FairSpec == Spec /\ WF_vars(Next)

(***************************************************************************)
(* Two calls of analyze, interleaved.  The variables text ... exc are the  *)
(* call that is running, other is the call that is suspended; a switch     *)
(* exchanges them.  All of a call's state is its own: the argument and the *)
(* tree are locals of analyze, lines and diagnostics are attributes that   *)
(* NasaVisitor.__init__ sets on the visitor the call has created, and the  *)
(* pending visits are the call's stack.  The module holds no other state.  *)
(***************************************************************************)
\* the running call, as a record
Running ==
    [text |-> text, parsed |-> parsed, pc |-> pc, lines |-> lines,
     diagnostics |-> diagnostics, work |-> work, result |-> result, exc |-> exc]

\* a switch between calls whose visitors share one diagnostics list
Switch_shared_sink ==
    /\ other.pc # "none"
    /\ text' = other.text
    /\ parsed' = other.parsed
    /\ pc' = other.pc
    /\ lines' = other.lines
    /\ work' = other.work
    /\ result' = other.result
    /\ exc' = other.exc
    /\ other' = Running
    /\ UNCHANGED <<diagnostics, cli, unit>>

\* the scheduler suspends the running call and resumes the other one
Switch ==
    /\ other.pc # "none"
    /\ text' = other.text
    /\ parsed' = other.parsed
    /\ pc' = other.pc
    /\ lines' = other.lines
    /\ diagnostics' = other.diagnostics
    /\ work' = other.work
    /\ result' = other.result
    /\ exc' = other.exc
    /\ other' = Running
    /\ UNCHANGED <<cli, unit>>

\* texts for two calls: with and without diagnostics, unparsable, empty, blank
PairInputs ==
    {Program(TModule(<<TExpr(TCall(TName(S_eval), <<X>>))>>)),
     Program(TModule(<<TDef(S_f, <<SelfCall(S_f)>>, <<>>, 1)>>)),
     Program(TModule(<<TWhile(TConst(S_True), <<TExpr(TCall(TName(S_exec), <<>>))>>)>>)),
     Program(TModule(<<TExpr(X)>>)),
     PageBreak(Program(TModule(<<TAsyncDef(S_g, <<TPass>>, <<>>, 1, 1)>>))),
     Input(S_eval \o <<"(", "x">>, FALSE, <<>>),
     EmptyText,
     WhitespaceText}

\* a call as it stands when analyze(inp.text) has just been called
Fresh(inp) ==
    [text |-> inp.text, parsed |-> inp.parsed, pc |-> "start", lines |-> <<>>,
     diagnostics |-> <<>>, work |-> <<>>, result |-> <<>>, exc |-> ""]

PairInit ==
    \E a \in PairInputs \cup {DeepChain} :
        \E b \in IF a = DeepChain
                  THEN {Program(TModule(<<TExpr(TCall(TName(S_eval), <<X>>))>>))}
                  ELSE PairInputs :
            /\ Called(a)
            /\ other = Fresh(b)
            /\ cli = NoLint
            /\ unit = NoUnit

PairNext == Next \/ Switch

PairSpec == PairInit /\ [][PairNext]_vars

(***************************************************************************)
(* The lint command.  A path is the sequence of its parts, a part a        *)
(* sequence of characters.  The file system is fixed: FS is the set of its  *)
(* files, read_text gives their texts.  cli holds the locals               *)
(* of lint: files is sorted(files), the list the for loop runs over, done  *)
(* the number of its files already handled.  analyze is called for one     *)
(* file at a time and runs in the variables text ... exc.                  *)
(***************************************************************************)
\* the files below the working directory; gen/mod.py is a directory
FS ==
    {<<<<"g", "e", "n">>, <<"m", "o", "d", ".", "p", "y">>, <<"i", "n", "n", "e", "r", ".", "p", "y">>>>,
     <<<<"a", ".", "p", "y">>>>,
     <<<<"m", "a", "i", "n", ".", "p", "y">>>>,
     <<<<"d", "i", "s", "t", ".", "p", "y">>>>,
     <<<<"s", "r", "c">>, <<"n", "a", "s", "a", "_", "l", "s", "p">>, <<"a", "n", "a", "l", "y", "z", "e", "r", ".", "p", "y">>>>,
     <<<<"s", "r", "c">>, <<"n", "a", "s", "a", "_", "l", "s", "p">>, <<"c", "l", "i", ".", "p", "y">>>>,
     <<<<"p", "k", "g">>, <<"z", ".", "p", "y">>>>,
     <<<<"p", "k", "g">>, <<"b", "r", "o", "k", "e", "n", ".", "p", "y">>>>,
     <<<<"p", "k", "g">>, <<"n", "o", "t", "e", "s", ".", "t", "x", "t">>>>,
     <<<<"p", "k", "g">>, <<"b", "u", "i", "l", "d">>, <<"p", ".", "p", "y">>>>,
     <<<<"e">>, <<"_", "_", "i", "n", "i", "t", "_", "_", ".", "p", "y">>>>,
     <<<<"d", "e", "e", "p">>, <<"d", "e", "e", "p", ".", "p", "y">>>>,
     <<<<"h", "i", "d">>, <<".", "p", "y">>>>,
     <<<<"l", "o", "n", "g">>, <<"f", "a", "r", ".", "p", "y">>>>,
     <<<<".", "v", "e", "n", "v">>, <<"l", "i", "b">>, <<"b", "a", "d", ".", "p", "y">>>>,
     <<<<"v", "e", "n", "v">>, <<"p", ".", "p", "y">>>>,
     <<<<".", "g", "i", "t">>, <<"p", ".", "p", "y">>>>,
     <<<<"_", "_", "p", "y", "c", "a", "c", "h", "e", "_", "_">>, <<"p", ".", "p", "y">>>>,
     <<<<"n", "o", "d", "e", "_", "m", "o", "d", "u", "l", "e", "s">>, <<"p", ".", "p", "y">>>>,
     <<<<".", "t", "o", "x">>, <<"p", ".", "p", "y">>>>,
     <<<<".", "n", "o", "x">>, <<"p", ".", "p", "y">>>>,
     <<<<"d", "i", "s", "t">>, <<"p", ".", "p", "y">>>>,
     <<<<"b", "u", "i", "l", "d">>, <<"p", ".", "p", "y">>>>,
     <<<<".", "e", "g", "g", "s">>, <<"p", ".", "p", "y">>>>,
     <<<<"*", ".", "e", "g", "g", "-", "i", "n", "f", "o">>, <<"p", ".", "p", "y">>>>,
     <<<<"m", "u", "t", "a", "n", "t", "s">>, <<"p", ".", "p", "y">>>>,
     <<<<"x", ".", "e", "g", "g", "-", "i", "n", "f", "o">>, <<"p", ".", "p", "y">>>>,
     <<<<".", "e", "g", "g", "-", "i", "n", "f", "o">>, <<"p", ".", "p", "y">>>>,
     <<<<"e", "g", "g", "-", "i", "n", "f", "o">>, <<"p", ".", "p", "y">>>>,
     <<<<"v", "e", "n", "v", "2">>, <<"p", ".", "p", "y">>>>,
     <<<<"b", "u", "i", "l", "d", "s">>, <<"p", ".", "p", "y">>>>}

\* file.read_text(): the texts of the files of FS; those not listed read "eval(x)"
read_text(p) ==
    CASE p \in {<<<<"m", "a", "i", "n", ".", "p", "y">>>>,
                 <<<<"h", "i", "d">>, <<".", "p", "y">>>>} ->
            Program(TModule(<<TExpr(X)>>))
      [] p = <<<<"s", "r", "c">>, <<"n", "a", "s", "a", "_", "l", "s", "p">>, <<"a", "n", "a", "l", "y", "z", "e", "r", ".", "p", "y">>>> ->
            Program(TModule(<<TDef(S_f, <<SelfCall(S_f)>>, <<>>, 1)>>))
      [] p = <<<<"s", "r", "c">>, <<"n", "a", "s", "a", "_", "l", "s", "p">>, <<"c", "l", "i", ".", "p", "y">>>> ->
            Program(TModule(<<TAsyncDef(S_g, <<TWhile(TConst(S_True), <<TPass>>)>>, <<>>, 1, 1)>>))
      [] p = <<<<"p", "k", "g">>, <<"b", "r", "o", "k", "e", "n", ".", "p", "y">>>> ->
            Input(S_eval \o <<"(", "x">>, FALSE, <<>>)
      [] p = <<<<"e">>, <<"_", "_", "i", "n", "i", "t", "_", "_", ".", "p", "y">>>> ->
            EmptyText
      [] p = <<<<"d", "e", "e", "p">>, <<"d", "e", "e", "p", ".", "p", "y">>>> ->
            DeepChain
      [] p = <<<<"l", "o", "n", "g">>, <<"f", "a", "r", ".", "p", "y">>>> ->
            Program(TModule(<<TDoc(9), TExpr(TCall(TName(S_compile), <<X, TCall(TName(S_eval), <<>>)>>))>>))
      [] OTHER ->
            Program(TModule(<<TExpr(TCall(TName(S_eval), <<X>>))>>))

\* the characters of the names of FS, by code point
Alphabet ==
    <<"*", "-", ".", "0", "1", "2", "3", "4", "5", "6", "7", "8", "9", "_", "a", "b", "c", "d", "e", "f", "g", "h", "i", "j", "k", "l", "m", "n", "o", "p", "q", "r", "s", "t", "u", "v", "w", "x", "y", "z">>

ord(c) == CHOOSE i \in 1..Len(Alphabet) : Alphabet[i] = c

\* a < b for strings: at the first position where they differ, by code point, or a
\* is a proper prefix of b
StrLess(a, b) ==
    \E k \in 1..(Len(a) + 1) :
        /\ k <= Len(b)
        /\ \A i \in 1..(k - 1) : a[i] = b[i]
        /\ k <= Len(a) => ord(a[k]) < ord(b[k])

\* PurePath.__lt__: the lists of parts are compared, as Python compares lists
PathLess(p, q) ==
    \E k \in 1..(Len(p) + 1) :
        /\ k <= Len(q)
        /\ \A i \in 1..(k - 1) : p[i] = q[i]
        /\ k <= Len(p) => StrLess(p[k], q[k])

\* the files in the order they were found
sorted_as_found(fs) == fs

sorted(fs) == SortSeq(fs, PathLess)

endswith(a, suffix) ==
    Len(a) >= Len(suffix) /\ SubSeq(a, Len(a) - Len(suffix) + 1, Len(a)) = suffix

\* PurePath.suffix: the name from its last dot on, unless that dot is the first or
\* the last character of the name or there is none
suffix(p) ==
    LET name == p[Len(p)]
        dots == {i \in 1..Len(name) : name[i] = "."}
        i == CHOOSE d \in dots : \A e \in dots : e <= d
    IN  IF dots # {} /\ 1 < i /\ i < Len(name) THEN SubSeq(name, i, Len(name)) ELSE <<>>

\* str(path): the parts joined by "/"
path_str(p) == Concat([k \in 1..Len(p) |-> IF k = 1 THEN p[k] ELSE <<"/">> \o p[k]])

is_file(p) == p \in FS

is_dir(p) == \E f \in FS : Len(f) > Len(p) /\ SubSeq(f, 1, Len(p)) = p

\* every file and directory of FS
Entries == UNION {{SubSeq(f, 1, k) : k \in 1..Len(f)} : f \in FS}

\* p.rglob("*.py"): the entries below p, at any depth, files and directories, whose
\* name matches *.py
rglob(p) ==
    {f \in Entries : /\ Len(f) > Len(p)
                     /\ SubSeq(f, 1, Len(p)) = p
                     /\ endswith(f[Len(f)], <<".", "p", "y">>)}

EXCLUDED_DIRS ==
    {<<".", "v", "e", "n", "v">>,
     <<"v", "e", "n", "v">>,
     <<".", "g", "i", "t">>,
     <<"_", "_", "p", "y", "c", "a", "c", "h", "e", "_", "_">>,
     <<"n", "o", "d", "e", "_", "m", "o", "d", "u", "l", "e", "s">>,
     <<".", "t", "o", "x">>,
     <<".", "n", "o", "x">>,
     <<"d", "i", "s", "t">>,
     <<"b", "u", "i", "l", "d">>,
     <<".", "e", "g", "g", "s">>,
     <<"*", ".", "e", "g", "g", "-", "i", "n", "f", "o">>,
     <<"m", "u", "t", "a", "n", "t", "s">>}

\* should_exclude with the name test only
should_exclude_dirs_only(p) == \E k \in 1..Len(p) : p[k] \in EXCLUDED_DIRS

should_exclude(p) ==
    \E k \in 1..Len(p) :
        p[k] \in EXCLUDED_DIRS \/ endswith(p[k], <<".", "e", "g", "g", "-", "i", "n", "f", "o">>)

\* format_diagnostic printing the positions as they are stored
format_diagnostic_zero_based(p, diag) ==
    <<path_str(p), ":", str(diag.range.start.line), ":", str(diag.range.start.character),
      ": ", diag.code, " ">> \o diag.message

\* format_diagnostic: f"{path}:{line}:{col}: {diag.code} {diag.message}", by segments
format_diagnostic(p, diag) ==
    <<path_str(p), ":", str(diag.range.start.line + 1), ":", str(diag.range.start.character + 1),
      ": ", diag.code, " ">> \o diag.message

\* a set as a sequence, in some order
RECURSIVE Listed(_)
Listed(S) == IF S = {} THEN <<>> ELSE LET x == CHOOSE y \in S : TRUE IN <<x>> \o Listed(S \ {x})

\* lines 49-54 for one path of the command line
collected(p) ==
    IF is_file(p) /\ suffix(p) = <<".", "p", "y">> /\ ~should_exclude(p)
    THEN <<p>>
    ELSE IF is_dir(p)
         THEN Listed({f \in rglob(p) : ~should_exclude(f)})
         ELSE <<>>

\* the command lines: every entry by itself, a path that does not exist, and some
\* lists of two paths
CommandLines ==
    {<<p>> : p \in Entries \cup {<<<<"n", "o", "p", "e", ".", "p", "y">>>>}}
    \cup
    {<<<<<<"a", ".", "p", "y">>>>, <<<<"p", "k", "g">>>>>>,
     <<<<<<"p", "k", "g">>>>, <<<<"a", ".", "p", "y">>>>>>,
     <<<<<<"p", "k", "g">>>>, <<<<"p", "k", "g">>, <<"z", ".", "p", "y">>>>>>,
     <<<<<<"m", "a", "i", "n", ".", "p", "y">>>>, <<<<"e">>>>>>,
     <<<<<<"e">>>>, <<<<"a", ".", "p", "y">>>>>>,
     <<<<<<"d", "e", "e", "p">>>>, <<<<"a", ".", "p", "y">>>>>>,
     <<<<<<"l", "o", "n", "g">>>>, <<<<"s", "r", "c">>>>>>,
     <<<<<<"n", "o", "p", "e", ".", "p", "y">>>>, <<<<"a", ".", "p", "y">>>>>>,
     <<<<<<"a", ".", "p", "y">>>>, <<<<"a", ".", "p", "y">>>>>>}

\* lint, lines 48-58: the files are collected and sorted
LintCollect ==
    /\ cli.pc = "collect"
    /\ cli' = [cli EXCEPT !.pc = "loop",
                          !.files = sorted(Concat([k \in 1..Len(cli.paths) |-> collected(cli.paths[k])]))]
    /\ UNCHANGED <<text, parsed, pc, lines, diagnostics, work, result, exc, other, unit>>

\* line 60: file.read_text() and the call of analyze; read_text raises
\* IsADirectoryError for a directory, which nothing catches
LintAnalyze ==
    /\ cli.pc = "loop"
    /\ cli.done < Len(cli.files)
    /\ pc = "none"
    /\ IF is_file(cli.files[cli.done + 1])
       THEN /\ text' = read_text(cli.files[cli.done + 1]).text
            /\ parsed' = read_text(cli.files[cli.done + 1]).parsed
            /\ pc' = "start"
            /\ lines' = <<>>
            /\ diagnostics' = <<>>
            /\ work' = <<>>
            /\ result' = <<>>
            /\ exc' = ""
            /\ cli' = cli
       ELSE /\ cli' = [cli EXCEPT !.pc = "crashed", !.exit_status = 1]
            /\ UNCHANGED <<text, parsed, pc, lines, diagnostics, work, result, exc>>
    /\ UNCHANGED <<other, unit>>

\* lines 60-62: analyze has returned; its diagnostics are printed and counted
LintReport ==
    /\ cli.pc = "loop"
    /\ pc = "done"
    /\ cli' = [cli EXCEPT !.output = @ \o [k \in 1..Len(result) |->
                                              format_diagnostic(cli.files[cli.done + 1], result[k])],
                          !.total_errors = @ + Len(result),
                          !.done = @ + 1]
    /\ text' = NoCall.text
    /\ parsed' = NoCall.parsed
    /\ pc' = NoCall.pc
    /\ lines' = NoCall.lines
    /\ diagnostics' = NoCall.diagnostics
    /\ work' = NoCall.work
    /\ result' = NoCall.result
    /\ exc' = NoCall.exc
    /\ UNCHANGED <<other, unit>>

\* analyze has raised: nothing in lint catches the exception, the command ends with
\* status 1 and prints no further diagnostic
LintRaise ==
    /\ cli.pc = "loop"
    /\ pc = "raised"
    /\ cli' = [cli EXCEPT !.pc = "crashed", !.exit_status = 1]
    /\ UNCHANGED <<text, parsed, pc, lines, diagnostics, work, result, exc, other, unit>>

\* lines 64-65: the loop is over
LintExit ==
    /\ cli.pc = "loop"
    /\ cli.done = Len(cli.files)
    /\ pc = "none"
    /\ cli' = [cli EXCEPT !.pc = "exited",
                          !.exit_status = IF cli.total_errors > 0 THEN 1 ELSE 0]
    /\ UNCHANGED <<text, parsed, pc, lines, diagnostics, work, result, exc, other, unit>>

LintInit ==
    \E args \in CommandLines :
        /\ text = NoCall.text
        /\ parsed = NoCall.parsed
        /\ pc = NoCall.pc
        /\ lines = NoCall.lines
        /\ diagnostics = NoCall.diagnostics
        /\ work = NoCall.work
        /\ result = NoCall.result
        /\ exc = NoCall.exc
        /\ other = NoCall
        /\ cli = [NoLint EXCEPT !.pc = "collect", !.paths = args]
        /\ unit = NoUnit

LintNext == Next \/ LintCollect \/ LintAnalyze \/ LintReport \/ LintRaise \/ LintExit

LintSpec == LintInit /\ [][LintNext]_vars

(***************************************************************************)
(* Direct calls of the helpers of the visitor.  A visitor is constructed   *)
(* for a text (NasaVisitor(code)), then one method is called on it with    *)
(* arguments of the caller's choice: _pos with any two integers, and       *)
(* _range_for_func_name with a definition node of the parsed text whose    *)
(* lineno the caller may have changed.                                     *)
(***************************************************************************)
\* raw lines and columns handed to _pos run from -MaxRaw to MaxRaw
MaxRaw == 3

\* the line number the test puts on a node to have it outside the text
InvalidLine == 9999

\* the texts a visitor is constructed for
UnitInputs ==
    {Program(TModule(<<TDef(S_f, <<TPass>>, <<>>, 1)>>)),
     Program(TModule(<<TDef(S_f, <<SelfCall(S_f), TAssert(X)>>, <<>>, 2)>>)),
     Program(TModule(<<TAsyncDef(S_g, <<TPass>>, <<>>, 1, 1)>>)),
     Program(TModule(<<TAsyncDef(S_g, <<TAssert(X)>>, <<>>, 2, 2)>>)),
     Program(TModule(<<TClass(S_C, <<TDef(S_f, <<TPass>>, <<>>, 1)>>)>>)),
     PageBreak(Program(TModule(<<TDef(S_f, <<TPass>>, <<>>, 1)>>)))}

\* the definition nodes of a tree
definitions_of(tree) ==
    {i \in DOMAIN tree : tree[i].kind \in {"FunctionDef", "AsyncFunctionDef"}}

\* the calls that are made on a visitor for inp
UnitCalls(inp) ==
    {[NoUnit EXCEPT !.pc = "called", !.fn = "_range_for_func_name",
                    !.node = [inp.parsed.tree[i] EXCEPT !.lineno = l]] :
        i \in definitions_of(inp.parsed.tree),
        l \in 1..(Len(splitlines(inp.text)) + 1) \cup {InvalidLine}}
    \cup
    {[NoUnit EXCEPT !.pc = "called", !.fn = "_pos", !.lineno = l, !.col = c] :
        l \in (-MaxRaw)..MaxRaw, c \in (-MaxRaw)..MaxRaw}

UnitInit ==
    \E inp \in UnitInputs :
        /\ text = inp.text
        /\ parsed = inp.parsed
        /\ pc = "none"
        /\ lines = splitlines(inp.text)
        /\ diagnostics = <<>>
        /\ work = <<>>
        /\ result = <<>>
        /\ exc = ""
        /\ other = NoCall
        /\ cli = NoLint
        /\ unit \in UnitCalls(inp)

\* NasaVisitor._pos(lineno, col)
CallPos ==
    /\ unit.pc = "called"
    /\ unit.fn = "_pos"
    /\ unit' = IF pos_asserts(unit.lineno, unit.col)
               THEN [unit EXCEPT !.pc = "returned", !.ret = pos(unit.lineno, unit.col)]
               ELSE [unit EXCEPT !.pc = "raised"]
    /\ UNCHANGED <<text, parsed, pc, lines, diagnostics, work, result, exc, other, cli>>

\* visitor._range_for_func_name(node)
CallRangeForFuncName ==
    /\ unit.pc = "called"
    /\ unit.fn = "_range_for_func_name"
    /\ unit' = IF range_for_func_name_asserts(unit.node, lines)
               THEN [unit EXCEPT !.pc = "returned", !.ret = range_for_func_name(unit.node, lines)]
               ELSE [unit EXCEPT !.pc = "raised"]
    /\ UNCHANGED <<text, parsed, pc, lines, diagnostics, work, result, exc, other, cli>>

UnitNext == CallPos \/ CallRangeForFuncName

UnitSpec == UnitInit /\ [][UnitNext]_vars

(***************************************************************************)
(* What the claims speak about.                                            *)
(***************************************************************************)
Done == pc = "done"

Tree == parsed.tree

NodeIds == DOMAIN parsed.tree

\* the indices of the returned diagnostics with the given code
Returned(code) == {k \in DOMAIN result : result[k].code = code}

\* the lines of the text as the parser numbers them: broken at "\n" only
SourceLines == SplitAt(text, {"\n"})

\* the span of node n in zero-based lines
Span(n) ==
    [start |-> [line |-> n.lineno - 1, character |-> n.col_offset],
     end |-> [line |-> n.end_lineno - 1, character |-> n.end_col_offset]]

IsWhitespace(t) == \A i \in DOMAIN t : isspace(t[i])

C2_EmptyOrWhitespaceReturnsEmpty ==
    IsWhitespace(text) =>
        /\ pc # "raised"
        /\ Done => result = <<>>

(***************************************************************************)
(* C3: for a text that parses, analyze never raises.                       *)
(***************************************************************************)
C3_ParsedTextNeverRaises == parsed.ok /\ text # <<>> => pc # "raised"

(***************************************************************************)
(* Calls and definitions of the parsed program, as the claims name them.   *)
(***************************************************************************)
CallIds == {i \in NodeIds : Tree[i].kind = "Call"}

\* the calls whose target is a bare name or an attribute access
NamedCallIds == {i \in CallIds : Tree[Tree[i].func].kind \in {"Name", "Attribute"}}

\* the name such a call resolves to: the bare name, or the final attribute name
Callee(i) == Tree[Tree[i].func].name

RestrictedNames ==
    {S_eval, S_exec, S_compile, S_globals, S_locals, S_import, S_setattr, S_getattr}

RestrictedCallIds == {i \in NamedCallIds : Callee(i) \in RestrictedNames}

DefIds == {i \in NodeIds : Tree[i].kind \in {"FunctionDef", "AsyncFunctionDef"}}

WhileIds == {i \in NodeIds : Tree[i].kind = "While"}

\* the loops whose condition is the literal True
WhileTrueIds ==
    {i \in WhileIds : Tree[Tree[i].test].kind = "Constant" /\ Tree[Tree[i].test].value = S_True}

\* the keyword sequence that introduces the definition f
IntroducedBy(f) == IF f.kind = "AsyncFunctionDef" THEN S_async \o SP \o S_def ELSE S_def

\* the zero-based columns of ln, from column c on, where kw stands
KeywordAt(ln, kw, c) ==
    {q \in c..(Len(ln) - Len(kw)) : SubSeq(ln, q + 1, q + Len(kw)) = kw}

\* the first column of ln, from column c on, that holds no whitespace (Len(ln) at the end)
AfterWhitespace(ln, c) ==
    CHOOSE q \in c..Len(ln) :
        /\ q = Len(ln) \/ ~isspace(ln[q + 1])
        /\ \A j \in c..(q - 1) : isspace(ln[j + 1])

\* the function-name range of the definition f: on its def line, past the introducing
\* keyword and the whitespace after it, as long as the name; where the def line is not
\* among the lines, the span of f; where the keyword is not on the line, at f's column
NameRange(f) ==
    IF f.lineno \notin DOMAIN SourceLines
    THEN Span(f)
    ELSE LET ln == SourceLines[f.lineno]
             at == KeywordAt(ln, IntroducedBy(f), f.col_offset)
             first == CHOOSE q \in at : \A j \in at : q <= j
             c == IF at = {}
                  THEN f.col_offset
                  ELSE AfterWhitespace(ln, first + Len(IntroducedBy(f)))
         IN [start |-> [line |-> f.lineno - 1, character |-> c],
             end |-> [line |-> f.lineno - 1, character |-> c + Len(f.name)]]

\* the text the range r covers on its line
Covered(r) == SubSeq(SourceLines[r.start.line + 1], r.start.character + 1, r.end.character)

\* the diagnostic d is about the function f: it names f and is anchored at f's name range
About(d, f) == Len(d.message) >= 2 /\ d.message[2] = f.name /\ d.range = NameRange(f)

\* the nodes below i that are not inside a nested function or class definition
RECURSIVE Scope(_, _)
Scope(tree, i) ==
    IF tree[i].kind \in {"FunctionDef", "AsyncFunctionDef", "ClassDef"}
    THEN {}
    ELSE {i} \cup UNION {Scope(tree, c) : c \in Elems(tree[i].children)}

\* the direct scope of f: its body statements without the interior of nested definitions
DirectScope(f) == UNION {Scope(Tree, s) : s \in Elems(f.body)}

\* f's direct scope holds a call to a bare name equal to f's own name
HasSelfCall(f) ==
    \E i \in DirectScope(f) \cap CallIds :
        Tree[Tree[i].func].kind = "Name" /\ Tree[Tree[i].func].name = f.name

(***************************************************************************)
(* C4: every call whose target is a bare name or an attribute access, and  *)
(* whose resolved name is one of eval, exec, compile, globals, locals,     *)
(* __import__, setattr, getattr, yields exactly one NASA01-A diagnostic;   *)
(* a call with any other resolved name or any other target shape yields    *)
(* none.                                                                   *)
(***************************************************************************)
C4_OneDiagnosticPerRestrictedCall ==
    Done =>
        /\ \A k \in Returned("NASA01-A") : Len(result[k].message) = 3
        /\ \A n \in {Callee(i) : i \in NamedCallIds}
                    \cup {result[k].message[2] : k \in Returned("NASA01-A")} :
              Cardinality({k \in Returned("NASA01-A") : result[k].message[2] = n})
                = IF n \in RestrictedNames
                  THEN Cardinality({i \in NamedCallIds : Callee(i) = n})
                  ELSE 0

\* getattr is called through an attribute, next to a call of an allowed name and a call
\* whose target has no name
C4_Witness ==
    /\ Done
    /\ \E i \in RestrictedCallIds : Tree[Tree[i].func].kind = "Attribute" /\ Callee(i) = S_getattr
    /\ \E i \in RestrictedCallIds : Tree[Tree[i].func].kind = "Name"
    /\ \E i \in NamedCallIds : Callee(i) \notin RestrictedNames
    /\ \E i \in CallIds \ NamedCallIds : TRUE
    /\ Cardinality(Returned("NASA01-A")) = Cardinality(RestrictedCallIds)

(***************************************************************************)
(* C5: the range of a NASA01-A diagnostic is the zero-based span of the    *)
(* call's target expression (the bare name, or the whole attribute         *)
(* expression); it stops before the call's argument list.                  *)
(***************************************************************************)
C5_RangeIsTargetSpan ==
    Done =>
        /\ {result[k].range : k \in Returned("NASA01-A")}
             = {Span(Tree[Tree[i].func]) : i \in RestrictedCallIds}
        /\ Cardinality(Returned("NASA01-A")) = Cardinality(RestrictedCallIds)
        /\ \A k \in Returned("NASA01-A") :
              LET r == result[k].range
              IN /\ r.end.line + 1 \in DOMAIN SourceLines
                 /\ r.end.character + 1 \in DOMAIN SourceLines[r.end.line + 1]
                 /\ SourceLines[r.end.line + 1][r.end.character + 1] = "("

\* a restricted call through an attribute whose object is itself a call, with arguments
C5_Witness ==
    /\ Done
    /\ \E i \in RestrictedCallIds :
          /\ Tree[Tree[i].func].kind = "Attribute"
          /\ Len(Tree[i].children) > 1
          /\ \E k \in Returned("NASA01-A") :
                /\ result[k].range = Span(Tree[Tree[i].func])
                /\ result[k].range # Span(Tree[i])
    /\ \E i \in RestrictedCallIds : Tree[Tree[i].func].kind = "Name" /\ Tree[i].lineno > 1

(***************************************************************************)
(* C6, as the spec states it: the message of a NASA01-A diagnostic is      *)
(* exactly "Call to forbidden API '<name>' (restricted subset)", <name>    *)
(* being the resolved callee name.                                         *)
(***************************************************************************)
C6_MessageAsStated ==
    Done =>
        \A k \in Returned("NASA01-A") :
            \E i \in RestrictedCallIds :
                /\ result[k].range = Span(Tree[Tree[i].func])
                /\ result[k].message
                     = <<"Call to forbidden API '", Callee(i), "' (restricted subset)">>

(***************************************************************************)
(* C6, amended: the message of a NASA01-A diagnostic is exactly            *)
(* "Call to forbidden API '<name>' (NASA01: restricted subset)", <name>    *)
(* being the resolved callee name of the call the diagnostic is for.       *)
(***************************************************************************)
C6_MessageWithRuleTag ==
    Done =>
        \A k \in Returned("NASA01-A") :
            \E i \in RestrictedCallIds :
                /\ result[k].range = Span(Tree[Tree[i].func])
                /\ result[k].message
                     = <<"Call to forbidden API '", Callee(i), "' (NASA01: restricted subset)">>

\* two restricted calls with different names, one of them through an attribute
C6_Witness ==
    /\ Done
    /\ \E k1, k2 \in Returned("NASA01-A") :
          /\ result[k1].message[2] # result[k2].message[2]
          /\ result[k1].message[1] = "Call to forbidden API '"
    /\ \E i \in RestrictedCallIds : Tree[Tree[i].func].kind = "Attribute"

(***************************************************************************)
(* C7: every while loop whose condition is the literal True yields exactly *)
(* one NASA02 diagnostic whose range is the whole loop statement; a while  *)
(* loop with a non-constant condition or a constant other than True, and a *)
(* for loop, yield none.                                                   *)
(***************************************************************************)
C7_WhileTrueReported ==
    Done =>
        /\ {result[k].range : k \in Returned("NASA02")} = {Span(Tree[i]) : i \in WhileTrueIds}
        /\ Cardinality(Returned("NASA02")) = Cardinality(WhileTrueIds)

\* a while True next to a while with another constant, the loop reported once over its
\* whole statement
C7_Witness ==
    /\ Done
    /\ \E i \in WhileTrueIds, j \in WhileIds \ WhileTrueIds :
          /\ Tree[Tree[j].test].kind = "Constant"
          /\ Tree[i].end_lineno > Tree[i].lineno
          /\ \E k \in Returned("NASA02") : result[k].range = Span(Tree[i])
    /\ Cardinality(Returned("NASA02")) = 1

(***************************************************************************)
(* C8: every function definition, synchronous or asynchronous, whose       *)
(* direct scope contains a call to a bare name equal to the function's own *)
(* name yields exactly one NASA01-B diagnostic, anchored at the function's *)
(* name and naming the function; a definition with no such call yields     *)
(* none.                                                                   *)
(***************************************************************************)
C8_SelfCallInDirectScope ==
    Done =>
        \A i \in DefIds :
            Cardinality({k \in Returned("NASA01-B") : About(result[k], Tree[i])})
              = IF HasSelfCall(Tree[i]) THEN 1 ELSE 0

(***************************************************************************)
(* C9: only direct self-recursion through a bare name is reported: every   *)
(* NASA01-B diagnostic is about a function that itself calls its own bare  *)
(* name; functions that call each other, and a call through an attribute   *)
(* of the function's name, yield none.                                     *)
(***************************************************************************)
C9_OnlyDirectSelfRecursion ==
    Done =>
        \A k \in Returned("NASA01-B") :
            \E i \in DefIds : About(result[k], Tree[i]) /\ HasSelfCall(Tree[i])

(***************************************************************************)
(* C10: a function definition yields exactly one NASA04 diagnostic, at its *)
(* name, exactly when the line number of its last line minus the line      *)
(* number of its def line is greater than or equal to 60.                  *)
(***************************************************************************)
C10_LongFunctionReported ==
    Done =>
        /\ \A i \in DefIds :
              Cardinality({k \in Returned("NASA04") : About(result[k], Tree[i])})
                = IF Tree[i].end_lineno - Tree[i].lineno >= 60 THEN 1 ELSE 0
        /\ Cardinality(Returned("NASA04"))
             = Cardinality({i \in DefIds : Tree[i].end_lineno - Tree[i].lineno >= 60})

\* a function whose difference is exactly 60 is reported while the function nested in
\* it, whose difference is below 60, is not
C10_Witness ==
    /\ Done
    /\ \E i, j \in DefIds :
          /\ Tree[i].end_lineno - Tree[i].lineno = 60
          /\ Tree[j].end_lineno - Tree[j].lineno = 58
          /\ \E k \in Returned("NASA04") :
                About(result[k], Tree[i]) /\ Covered(result[k].range) = Tree[i].name
    /\ Cardinality(Returned("NASA04")) = 1

(***************************************************************************)
(* Function-level diagnostics, told apart by what they say and where they  *)
(* stand, whatever the columns of their range.                             *)
(***************************************************************************)
FunctionCodes == {"NASA01-B", "NASA04", "NASA05"}

\* the diagnostic d names the function f and stands on f's def line
Concerns(d, f) ==
    Len(d.message) >= 2 /\ d.message[2] = f.name /\ d.range.start.line = f.lineno - 1

\* the returned diagnostics with the given code that concern the definition node i
ReturnedFor(code, i) == {k \in Returned(code) : Concerns(result[k], Tree[i])}

\* the assert statements in the direct scope of f
DirectAsserts(f) == {i \in DirectScope(f) : Tree[i].kind = "Assert"}

\* the definitions and classes nested anywhere inside the definition node i
NestedDefinitions(i) ==
    {j \in walk(Tree, i) \ {i} : Tree[j].kind \in {"FunctionDef", "AsyncFunctionDef", "ClassDef"}}

LambdaIds == {i \in NodeIds : Tree[i].kind = "Lambda"}

(***************************************************************************)
(* C11: a function definition yields exactly one NASA05 diagnostic exactly *)
(* when the number of assert statements in its direct scope (asserts in    *)
(* its if/loop blocks included) is 0 or 1, the message stating that count; *)
(* with 2 or more it yields none; no NASA05 is about anything else than a  *)
(* function definition.                                                    *)
(***************************************************************************)
C11_AssertCountOfDirectScope ==
    Done =>
        /\ \A i \in DefIds :
              LET n == Cardinality(DirectAsserts(Tree[i]))
              IN /\ Cardinality(ReturnedFor("NASA05", i)) = IF n < 2 THEN 1 ELSE 0
                 /\ \A k \in ReturnedFor("NASA05", i) :
                       /\ Len(result[k].message) = 5
                       /\ result[k].message[4] = IF n = 0 THEN <<"0">> ELSE <<"1">>
        /\ \A k \in Returned("NASA05") : \E i \in DefIds : Concerns(result[k], Tree[i])

(***************************************************************************)
(* C12: for a function definition that holds nested function or class     *)
(* definitions, directly in its body or inside a block of it, the asserts  *)
(* and the self-named calls inside those nested definitions do not count:  *)
(* it has a NASA05 exactly when the asserts outside them are fewer than 2  *)
(* and a NASA01-B exactly when a self-named call stands outside them, and  *)
(* each nested function is judged in the same way on its own.              *)
(***************************************************************************)
C12_NestedDefinitionsDoNotCount ==
    Done =>
        \A i \in DefIds :
            NestedDefinitions(i) # {} =>
                \A j \in {i} \cup (NestedDefinitions(i) \cap DefIds) :
                    /\ ReturnedFor("NASA05", j) # {}
                         <=> Cardinality(DirectAsserts(Tree[j])) < 2
                    /\ ReturnedFor("NASA01-B", j) # {} <=> HasSelfCall(Tree[j])

(***************************************************************************)
(* C13: a lambda expression is never treated as a function definition:     *)
(* every NASA01-B, NASA04 and NASA05 diagnostic concerns a def or async    *)
(* def, there are no more of them per rule than there are definitions, and *)
(* a text without definitions has none, whatever its lambdas hold.         *)
(***************************************************************************)
C13_NoFunctionRuleOnLambda ==
    Done =>
        \A code \in FunctionCodes :
            /\ Cardinality(Returned(code)) <= Cardinality(DefIds)
            /\ \A k \in Returned(code) : \E i \in DefIds : Concerns(result[k], Tree[i])

\* a lambda over more than 60 lines in a text without definitions, and nothing reported
C13_Witness ==
    /\ Done
    /\ DefIds = {}
    /\ \E i \in LambdaIds : Tree[i].end_lineno - Tree[i].lineno >= 60
    /\ result = <<>>

\* position a is not later than position b in the document
NotLater(a, b) == a.line < b.line \/ (a.line = b.line /\ a.character <= b.character)

(***************************************************************************)
(* C14: the sequence analyze returns is in document order: of any two      *)
(* diagnostics, the one earlier in the sequence starts at a position (line *)
(* first, then character) that is not later than the start of the other.   *)
(***************************************************************************)
C14_DocumentOrder ==
    Done =>
        \A j, k \in DOMAIN result :
            j < k => NotLater(result[j].range.start, result[k].range.start)

\* the returned function-level diagnostics of the definition node i
FunctionLevel(i) == UNION {ReturnedFor(code, i) : code \in FunctionCodes}

\* the place of a function-level code in the order recursion, length, assertions
Rank(code) == CASE code = "NASA01-B" -> 1 [] code = "NASA04" -> 2 [] OTHER -> 3

\* the returned diagnostic k is the one node n gives rise to
Produces(n, k) ==
    \/ n \in RestrictedCallIds /\ result[k].code = "NASA01-A"
         /\ result[k].range = Span(Tree[Tree[n].func])
    \/ n \in WhileTrueIds /\ result[k].code = "NASA02" /\ result[k].range = Span(Tree[n])
    \/ n \in DefIds /\ k \in FunctionLevel(n)

\* the returned diagnostics of the nodes inside the definition node i
ProducedInside(i) ==
    {k \in DOMAIN result : \E n \in walk(Tree, i) \ {i} : Produces(n, k)}

(***************************************************************************)
(* C15: the function-level diagnostics of a definition stand together in   *)
(* the order NASA01-B, NASA04, NASA05, and all of them stand before every  *)
(* diagnostic of a node inside that definition (calls, loops, nested       *)
(* definitions).                                                           *)
(***************************************************************************)
C15_FunctionChecksFirstInFixedOrder ==
    Done =>
        \A i \in DefIds :
            /\ \A j, k \in FunctionLevel(i) :
                  Rank(result[j].code) < Rank(result[k].code) => j < k
            /\ \A j, k \in FunctionLevel(i) :
                  \A m \in DOMAIN result : j < m /\ m < k => m \in FunctionLevel(i)
            /\ \A j \in FunctionLevel(i), k \in ProducedInside(i) : j < k

\* a function with all three function-level diagnostics that holds a forbidden call, a
\* while True and a nested function with a diagnostic of its own
C15_Witness ==
    /\ Done
    /\ \E i \in DefIds :
          /\ \A code \in FunctionCodes : ReturnedFor(code, i) # {}
          /\ \E k \in ProducedInside(i) : result[k].code = "NASA01-A"
          /\ \E k \in ProducedInside(i) : result[k].code = "NASA02"
          /\ \E k \in ProducedInside(i) : result[k].code \in FunctionCodes

(***************************************************************************)
(* C16: for a definition written as def, one or more whitespace characters *)
(* and the name on one line, the range of its function-level diagnostics   *)
(* starts at the first character of the name and ends len(name) characters *)
(* later on the same zero-based line: it covers the name.                  *)
(***************************************************************************)
C16_SyncNameRangeCoversName ==
    Done =>
        \A i \in {d \in DefIds : Tree[d].kind = "FunctionDef"} :
            \A k \in FunctionLevel(i) :
                LET ln == SourceLines[Tree[i].lineno]
                    c == AfterWhitespace(ln, Tree[i].col_offset + Len(S_def))
                IN /\ result[k].range.start = [line |-> Tree[i].lineno - 1, character |-> c]
                   /\ result[k].range.end
                        = [line |-> Tree[i].lineno - 1, character |-> c + Len(Tree[i].name)]
                   /\ SubSeq(ln, c + 1, c + Len(Tree[i].name)) = Tree[i].name

(***************************************************************************)
(* What a call returns when it runs alone: the diagnostics of the nodes of *)
(* its tree in visiting order, and nothing for a text that does not parse. *)
(***************************************************************************)
\* the diagnostics the visit of node i gives rise to by itself
Own(tree, i, ls) ==
    CASE tree[i].kind = "Call" -> visit_Call(tree, tree[i]).diags
      [] tree[i].kind = "While" -> visit_While(tree, tree[i]).diags
      [] tree[i].kind \in {"FunctionDef", "AsyncFunctionDef"} ->
            check_function(tree, tree[i], ls).diags
      [] OTHER -> <<>>

RECURSIVE Collected(_, _, _)
Collected(tree, i, ls) ==
    Own(tree, i, ls)
    \o Concat([j \in 1..Len(tree[i].children) |-> Collected(tree, tree[i].children[j], ls)])

ReturnedAlone(t, p) == IF p.ok THEN Collected(p.tree, 1, splitlines(t)) ELSE <<>>

\* the call c raises when it runs alone: on the empty text, or out of a tree too deep
RaisesAlone(c) == c.text = <<>> \/ c.text = DeepChain.text

(***************************************************************************)
(* C17: two analyze calls on separate inputs, interleaved at any points,   *)
(* each return exactly what they return when run alone: neither result     *)
(* holds a diagnostic of the other call or lacks one of its own.           *)
(***************************************************************************)
C17_CallsDoNotInterfere ==
    \A c \in {Running, other} :
        /\ c.pc = "done" => c.result = ReturnedAlone(c.text, c.parsed)
        /\ c.pc = "raised" => RaisesAlone(c)
        /\ RaisesAlone(c) => c.pc # "done"

\* both calls have returned, with different non-empty results, after the second one
\* started while the first one was in its traversal
C17_Witness ==
    /\ pc = "done"
    /\ other.pc = "done"
    /\ result # <<>>
    /\ other.result # <<>>
    /\ result # other.result

(***************************************************************************)
(* The lint command, as the claims speak about it.                         *)
(***************************************************************************)
Terminated == cli.pc \in {"exited", "crashed"}

\* the file lint is handling
CurrentFile == cli.files[cli.done + 1]

DigitValue(c) == CHOOSE v \in 0..9 : Digits[v + 1] = c

\* the number a decimal numeral stands for
RECURSIVE DecimalValue(_)
DecimalValue(ds) ==
    IF ds = <<>> THEN 0
    ELSE 10 * DecimalValue(SubSeq(ds, 1, Len(ds) - 1)) + DigitValue(ds[Len(ds)])

Numeral(ds) == ds # <<>> /\ (Len(ds) > 1 => ds[1] # "0")

\* line is "<path>:<L>:<C>: <code> <message>" for the diagnostic d of the file p
Rendered(line, p, d) ==
    /\ Len(line) = 8 + Len(d.message)
    /\ line[1] = path_str(p)
    /\ line[2] = ":"
    /\ Numeral(line[3])
    /\ DecimalValue(line[3]) = d.range.start.line + 1
    /\ line[4] = ":"
    /\ Numeral(line[5])
    /\ DecimalValue(line[5]) = d.range.start.character + 1
    /\ line[6] = ": "
    /\ line[7] = d.code
    /\ line[8] = " "
    /\ SubSeq(line, 9, Len(line)) = d.message

(***************************************************************************)
(* C18: format_diagnostic renders a diagnostic as                          *)
(* "<path>:<L>:<C>: <code> <message>", L the zero-based start line plus 1  *)
(* and C the zero-based start character plus 1, whatever the end position: *)
(* every time lint has handled a file, the lines it has printed are these  *)
(* renderings of the diagnostics analyze returned, one line each, in order.*)
(***************************************************************************)
C18_RenderedOneBased ==
    [][cli'.done = cli.done + 1 =>
        /\ Len(cli'.output) = Len(cli.output) + Len(result)
        /\ SubSeq(cli'.output, 1, Len(cli.output)) = cli.output
        /\ \A k \in 1..Len(result) :
              Rendered(cli'.output[Len(cli.output) + k], CurrentFile, result[k])]_vars

\* a printed diagnostic with a line and a column of two digits, of a file in a directory
C18_Witness ==
    \E k \in 1..Len(cli.output) :
        /\ Len(cli.output[k][3]) = 2
        /\ Len(cli.output[k][5]) = 2
        /\ \E i \in 1..Len(cli.output[k][1]) : cli.output[k][1][i] = "/"

\* the text of the file p holds something that analyze reports
Yields(p) ==
    /\ is_file(p)
    /\ read_text(p) # DeepChain    \* attribute accesses only: nothing to report
    /\ ReturnedAlone(read_text(p).text, read_text(p).parsed) # <<>>

(***************************************************************************)
(* C19: the lint command exits with status 1 if and only if at least one   *)
(* analysed file yields a diagnostic, and with status 0 otherwise, also    *)
(* when an analysed file has a syntax error, is empty, or no file is found.*)
(***************************************************************************)
C19_StatusOneIffDiagnostic ==
    Terminated =>
        /\ cli.exit_status \in {0, 1}
        /\ cli.exit_status = 1 <=> \E k \in 1..Len(cli.files) : Yields(cli.files[k])

\* the directory names the exclusion is stated for
ExcludedNames ==
    {<<".", "v", "e", "n", "v">>,
     <<"v", "e", "n", "v">>,
     <<".", "g", "i", "t">>,
     <<"_", "_", "p", "y", "c", "a", "c", "h", "e", "_", "_">>,
     <<"n", "o", "d", "e", "_", "m", "o", "d", "u", "l", "e", "s">>,
     <<".", "t", "o", "x">>,
     <<".", "n", "o", "x">>,
     <<"d", "i", "s", "t">>,
     <<"b", "u", "i", "l", "d">>,
     <<".", "e", "g", "g", "s">>,
     <<"m", "u", "t", "a", "n", "t", "s">>}

EndsWithEggInfo(part) ==
    \E k \in 1..Len(part) : SubSeq(part, k, Len(part)) = <<".", "e", "g", "g", "-", "i", "n", "f", "o">>

ExcludedAsStated(p) == \E k \in 1..Len(p) : p[k] \in ExcludedNames \/ EndsWithEggInfo(p[k])

\* the paths lint asks should_exclude about: a .py file named on the command line,
\* and the .py entries below a directory named on the command line
Asked ==
    UNION {IF is_file(cli.paths[k])
           THEN IF suffix(cli.paths[k]) = <<".", "p", "y">> THEN {cli.paths[k]} ELSE {}
           ELSE rglob(cli.paths[k]) : k \in 1..Len(cli.paths)}

(***************************************************************************)
(* C20: should_exclude(path) is true if and only if some component of the  *)
(* path is one of .venv, venv, .git, __pycache__, node_modules, .tox,      *)
(* .nox, dist, build, .eggs, mutants, or ends with ".egg-info": of the     *)
(* paths lint asks about, it keeps exactly those with no such component.   *)
(***************************************************************************)
C20_ExcludedIffNamedComponent ==
    cli.pc \in {"loop", "exited", "crashed"} =>
        \A p \in Asked :
            /\ should_exclude(p) <=> ExcludedAsStated(p)
            /\ p \in Elems(cli.files) <=> ~ExcludedAsStated(p)

\* lint has collected the files of a directory and left out the one below build
C20_Witness ==
    /\ cli.pc = "loop"
    /\ \E p \in Asked : p \in Elems(cli.files)
    /\ \E p \in Asked : p \notin Elems(cli.files) /\ ExcludedAsStated(p)

\* how often x occurs in the sequence fs
Count(x, fs) == Cardinality({k \in 1..Len(fs) : fs[k] = x})

\* the files lint finds for its arguments, in the order of the arguments
Found == Concat([k \in 1..Len(cli.paths) |-> collected(cli.paths[k])])

\* no path of fs stands before a smaller one
Ascending(fs) == \A i, j \in 1..Len(fs) : i < j => ~PathLess(fs[j], fs[i])

\* the lines for the file p: one per diagnostic of analyze(text of p), in that order
LinesOf(p) ==
    LET ds == ReturnedAlone(read_text(p).text, read_text(p).parsed)
    IN  [i \in 1..Len(ds) |-> format_diagnostic(p, ds[i])]

(***************************************************************************)
(* C21: lint prints diagnostics grouped by file in ascending sorted path   *)
(* order, whatever the order of the arguments or of directory discovery,   *)
(* and within one file in the order analyze returned them: the files lint  *)
(* goes through are the files found, in ascending order, and what has been *)
(* printed is, file after file, the lines of the files handled so far.     *)
(***************************************************************************)
C21_SortedByFileThenAnalyzeOrder ==
    cli.pc \in {"loop", "exited", "crashed"} =>
        /\ \A p \in Elems(Found) \cup Elems(cli.files) : Count(p, cli.files) = Count(p, Found)
        /\ Ascending(cli.files)
        /\ cli.output = Concat([k \in 1..cli.done |-> LinesOf(cli.files[k])])

\* a directory was named before a file that sorts first: both are printed, the file first
C21_Witness ==
    /\ cli.pc = "exited"
    /\ Len(cli.paths) = 2
    /\ PathLess(cli.paths[2], cli.paths[1])
    /\ Len(cli.output) >= 2
    /\ cli.output[1][1] = path_str(cli.paths[2])
    /\ cli.output[Len(cli.output)][1] # cli.output[1][1]

\* the nodes the rules speak about: restricted calls, while True loops, definitions
RuleNodes == RestrictedCallIds \cup WhileTrueIds \cup DefIds

(***************************************************************************)
(* C22: the walker goes into the children of every node, also of a node    *)
(* that was reported: a restricted call among the arguments of a           *)
(* restricted call, a while True inside a while True, and calls or loops   *)
(* inside a reported function, a lambda body or a decorator each get their *)
(* own diagnostic, and every node is checked exactly once, however many    *)
(* definitions it lies in: one diagnostic per restricted call and per      *)
(* while True, at most one of each function code per definition, and every *)
(* returned diagnostic is the diagnostic of exactly one node.              *)
(***************************************************************************)
C22_EveryNodeCheckedOnce ==
    Done =>
        /\ \A n \in RestrictedCallIds \cup WhileTrueIds :
              Cardinality({k \in DOMAIN result : Produces(n, k)}) = 1
        /\ \A n \in DefIds : \A code \in FunctionCodes : Cardinality(ReturnedFor(code, n)) <= 1
        /\ \A k \in DOMAIN result : Cardinality({n \in RuleNodes : Produces(n, k)}) = 1

\* a reported function holds a restricted call with a restricted call among its
\* arguments: three diagnostics
C22_Witness ==
    /\ Done
    /\ \E i \in DefIds :
          /\ FunctionLevel(i) # {}
          /\ \E n \in RestrictedCallIds \cap walk(Tree, i) :
                \E m \in (RestrictedCallIds \cap walk(Tree, n)) \ {n} :
                    \E k1, k2 \in DOMAIN result : k1 # k2 /\ Produces(n, k1) /\ Produces(m, k2)

\* the column of the name of the async definition f on its line ln: past "async", the
\* whitespace after it, "def", and the whitespace after that
AsyncNameColumn(ln, f) ==
    AfterWhitespace(ln, AfterWhitespace(ln, f.col_offset + Len(S_async)) + Len(S_def))

(***************************************************************************)
(* C23: for an async definition, the range of its function-level           *)
(* diagnostics covers exactly the identifier of its name, for any amount   *)
(* of whitespace between async and def and between def and the name.       *)
(***************************************************************************)
C23_AsyncNameRangeCoversName ==
    Done =>
        \A i \in {d \in DefIds : Tree[d].kind = "AsyncFunctionDef"} :
            \A k \in FunctionLevel(i) :
                LET ln == SourceLines[Tree[i].lineno]
                    c == AsyncNameColumn(ln, Tree[i])
                IN /\ result[k].range.start = [line |-> Tree[i].lineno - 1, character |-> c]
                   /\ result[k].range.end
                        = [line |-> Tree[i].lineno - 1, character |-> c + Len(Tree[i].name)]
                   /\ SubSeq(ln, c + 1, c + Len(Tree[i].name)) = Tree[i].name

(***************************************************************************)
(* Direct calls of the helpers, as the claims speak about them.            *)
(***************************************************************************)
Returns(fn) == unit.fn = fn /\ unit.pc = "returned"

\* the line index of the node of the call lies outside the lines of the visitor
OutsideLines == unit.node.lineno - 1 \notin 0..(Len(lines) - 1)

\* the keyword of the node of the call is not on its line at or after its column
KeywordMissing ==
    KeywordAt(lines[unit.node.lineno], IntroducedBy(unit.node), unit.node.col_offset) = {}

C24_KeywordMissingReached ==
    Returns("_range_for_func_name") /\ ~OutsideLines /\ KeywordMissing /\ unit.node.col_offset > 0

(***************************************************************************)
(* C25: the position mapper fails fast on every precondition violation:    *)
(* for any raw line below 1 and any raw column below 0 it raises, and for  *)
(* valid input it returns line = rawLine - 1 and character = rawColumn.    *)
(***************************************************************************)
C25_PositionMapperFailsFast ==
    unit.fn = "_pos" /\ unit.pc # "called" =>
        IF unit.lineno >= 1 /\ unit.col >= 0
        THEN unit.pc = "returned" /\ unit.ret = [line |-> unit.lineno - 1, character |-> unit.col]
        ELSE unit.pc = "raised"

\* the position p is not before the position q in the document
NotBefore(p, q) == p.line > q.line \/ (p.line = q.line /\ p.character >= q.character)

WellFormed(r) ==
    /\ r.start.line >= 0
    /\ r.start.character >= 0
    /\ r.end.line >= 0
    /\ r.end.character >= 0
    /\ NotBefore(r.end, r.start)

(***************************************************************************)
(* C26: every diagnostic analyze returns has a well-formed range: lines    *)
(* and characters of start and end are non-negative and the end is not     *)
(* before the start; so for whole-node ranges, call-target ranges and      *)
(* recovered function-name ranges, in the sink and in the result.          *)
(***************************************************************************)
C26_RangesWellFormed ==
    /\ \A k \in DOMAIN diagnostics : WellFormed(diagnostics[k].range)
    /\ \A k \in DOMAIN result : WellFormed(result[k].range)

\* returned together: a loop's whole-node range over several lines, a call-target range,
\* and a function-name range
C26_Witness ==
    /\ Done
    /\ \E k \in Returned("NASA02") : result[k].range.end.line > result[k].range.start.line
    /\ Returned("NASA01-A") # {}
    /\ \E k \in DOMAIN result : result[k].code \in FunctionCodes

(***************************************************************************)
(* C27: during one traversal the diagnostic sink is append-only: after     *)
(* every step its contents are the previous contents followed by zero or   *)
(* more new records, so that no recorded diagnostic is removed, reordered  *)
(* or modified before analyze returns, and analyze returns the sink.       *)
(***************************************************************************)
C27_SinkAppendOnly ==
    [][/\ pc = "visit" =>
            /\ Len(diagnostics') >= Len(diagnostics)
            /\ SubSeq(diagnostics', 1, Len(diagnostics)) = diagnostics
       /\ pc = "visit" /\ pc' = "done" => result' = diagnostics]_vars

\* in the middle of a traversal: two diagnostics recorded, nodes still to visit
C27_Witness == pc = "visit" /\ Len(diagnostics) >= 2 /\ work # <<>> /\ Fits

\* the path f lies below the directory d
Beneath(f, d) == Len(f) > Len(d) /\ SubSeq(f, 1, Len(d)) = d

\* the path f as seen from the directory d above it
RelativeTo(f, d) == SubSeq(f, Len(d) + 1, Len(f))

(***************************************************************************)
(* C28: lint analyses only Python source files that are not excluded: a    *)
(* file given directly is analysed only if its suffix is .py, a directory  *)
(* argument contributes only the .py files found recursively under it, and *)
(* a file for which should_exclude is true is never analysed, never        *)
(* printed and never changes the exit status: every path lint goes through *)
(* is a file, named *.py, not excluded, and either an argument with the    *)
(* suffix .py or below a directory argument.                               *)
(***************************************************************************)
C28_OnlyPythonFilesNotExcluded ==
    cli.pc \in {"loop", "exited", "crashed"} =>
        \A k \in 1..Len(cli.files) :
            LET f == cli.files[k]
            IN  /\ is_file(f)
                /\ endswith(f[Len(f)], <<".", "p", "y">>)
                /\ ~should_exclude(f)
                /\ \E j \in 1..Len(cli.paths) :
                       \/ f = cli.paths[j] /\ suffix(f) = <<".", "p", "y">>
                       \/ is_dir(cli.paths[j]) /\ Beneath(f, cli.paths[j])

(***************************************************************************)
(* C29: in one lint invocation every file is analysed and reported at most *)
(* once, also when the path arguments overlap: no path stands twice in the *)
(* list lint goes through, a handled file has as many printed lines as     *)
(* analyze returned diagnostics for it, and the error total counts each    *)
(* printed line once.                                                      *)
(***************************************************************************)
C29_EachFileAtMostOnce ==
    cli.pc \in {"loop", "exited", "crashed"} =>
        /\ \A k \in 1..Len(cli.files) : Count(cli.files[k], cli.files) = 1
        /\ \A k \in 1..cli.done :
               Cardinality({i \in 1..Len(cli.output) :
                                cli.output[i][1] = path_str(cli.files[k])})
                   = Len(LinesOf(cli.files[k]))
        /\ cli.total_errors = Cardinality(Elems(cli.output))

(***************************************************************************)
(* C30: whether a file found under a directory argument is excluded        *)
(* depends only on the path components below that directory argument: the  *)
(* .py files below a directory argument whose components below the         *)
(* argument hold no excluded name are analysed, whatever the argument's    *)
(* own path is, and the others are not collected for that argument.        *)
(***************************************************************************)
C30_ExclusionBelowArgumentOnly ==
    cli.pc \in {"loop", "exited", "crashed"} =>
        \A j \in 1..Len(cli.paths) :
            LET d == cli.paths[j]
            IN  (~is_file(d) /\ is_dir(d)) =>
                    \A f \in rglob(d) :
                        IF should_exclude(RelativeTo(f, d))
                        THEN f \notin Elems(collected(d))
                        ELSE f \in Elems(cli.files)

====
